---- MODULE Spec2Model ----
(***************************************************************************)
(* A model of the go-cmp comparison engine: the recursive value walker     *)
(* (compareAny and its helpers), option/filter resolution, the default     *)
(* reporter, and the cycle tracker.                                        *)
(*                                                                         *)
(* Go values are records  [t, n, f, e]:                                    *)
(*   t  the type name ("" for the invalid reflect.Value),                  *)
(*   n  the scalar payload (integer value, function identity),             *)
(*   f  a flag: IsNil for func/slice/pointer/interface, IsNaN for floats,  *)
(*   e  the children: struct fields, slice elements, pointee, dynamic      *)
(*      value of an interface.                                             *)
(***************************************************************************)
EXTENDS Integers, Sequences, FiniteSets, TLC

\* ------------------------------------------------------------- bounds ---
MaxInt == 1
MaxLen == 2
MaxOpts == 2

\* -------------------------------------------------------------- types ---
Kind(t) ==
    CASE t = "int" -> "Int"
      [] t = "float64" -> "Float"
      [] t = "func()" -> "Func"
      [] t = "EqT" -> "Int"
      [] t = "NeqT" -> "Int"
      [] t = "EqS" -> "Struct"
      [] t = "S" -> "Struct"
      [] t = "P" -> "Struct"
      [] t = "PB" -> "Struct"
      [] t = "W" -> "Struct"
      [] t = "WI" -> "Struct"
      [] t = "*S" -> "Ptr"
      [] t = "[]W" -> "Slice"
      [] t = "map[float64]W" -> "Map"
      [] t = "[]int" -> "Slice"
      [] t = "map[float64]int" -> "Map"
      [] t = "*int" -> "Ptr"
      [] t = "interface{}" -> "Interface"
      [] t = "bool" -> "Bool"
      [] t = "complex128" -> "Complex"
      [] t = "[2]float64" -> "Array"
      [] t \in {"q.T", "a/p.T", "b/p.T", "b/p.T'"} -> "Int"
      [] OTHER -> "Invalid"

\* the number of a reflect.Kind
KindNumber(t) ==
    CASE Kind(t) = "Bool" -> 1
      [] Kind(t) = "Int" -> 2
      [] Kind(t) = "Float" -> 14
      [] Kind(t) = "Complex" -> 16
      [] Kind(t) = "Array" -> 17
      [] Kind(t) = "Func" -> 19
      [] Kind(t) = "Interface" -> 20
      [] Kind(t) = "Map" -> 21
      [] Kind(t) = "Ptr" -> 22
      [] Kind(t) = "Slice" -> 23
      [] Kind(t) = "Struct" -> 25
      [] OTHER -> 0

\* reflect.Type.String and PkgPath of the named integer types: a/p.T and
\* b/p.T are both printed p.T; b/p.T' is a second type of package b/p that
\* is printed p.T (declared in another function)
TypeString(t) == IF t \in {"a/p.T", "b/p.T", "b/p.T'"} THEN "p.T" ELSE t

PkgPath(t) ==
    CASE t = "q.T" -> "q"
      [] t = "a/p.T" -> "a/p"
      [] t \in {"b/p.T", "b/p.T'"} -> "b/p"
      [] OTHER -> ""

\* the order of Go's < on the strings above
StringLess(a, b) ==
    LET rank == [str \in {"", "a/p", "b/p", "p.T", "q", "q.T"} |->
                   CASE str = "" -> 0 [] str = "a/p" -> 1 [] str = "b/p" -> 2
                     [] str = "p.T" -> 3 [] str = "q" -> 4 [] OTHER -> 5]
    IN rank[a] < rank[b]

\* the address of the type descriptor of the two types nothing else tells apart
TypePointer(t) == IF t = "b/p.T'" THEN 2 ELSE 1

\* reflect.Type.Elem of the slice and pointer types of the model
Elem(t) ==
    CASE t = "*S" -> "S"
      [] t = "[]W" -> "W"
      [] t = "map[float64]W" -> "W"
      [] OTHER -> "int"

\* struct fields in declaration order: name and type
Fields(t) ==
    CASE t = "S" -> << [name |-> "A", typ |-> "int"], [name |-> "b", typ |-> "int"] >>
      [] t = "EqS" -> << [name |-> "A", typ |-> "int"] >>
      [] t = "P" -> << [name |-> "s", typ |-> "S"] >>
      [] t = "PB" -> << [name |-> "B", typ |-> "S"] >>
      [] t = "W" -> << [name |-> "p", typ |-> "*S"] >>
      [] t = "WI" -> << [name |-> "I", typ |-> "interface{}"] >>
      [] OTHER -> << >>

\* t.MethodByName("Equal") exists with the shape func(T, T) bool
HasEqualMethod(t) == t \in {"EqT", "NeqT", "EqS"}

isExported(name) == name \in {"A", "B", "C"}

\* t.AssignableTo(u): identical types, u the empty interface, or u an
\* interface that t implements (EqT has a String method)
AssignableTo(t, u) ==
    t = u \/ u = "interface{}" \/ (u = "fmt.Stringer" /\ t = "EqT")

\* ------------------------------------------------------------- values ---
Val(t, n, f, e) == [t |-> t, n |-> n, f |-> f, e |-> e]

Invalid == Val("", 0, TRUE, << >>)

IsValid(v) == v.t # ""

Ints == { Val("int", n, FALSE, << >>) : n \in 0..MaxInt }

Floats == { Val("float64", n, FALSE, << >>) : n \in 0..MaxInt }
            \cup { Val("float64", 0, TRUE, << >>) }

Funcs == { Val("func()", 0, TRUE, << >>), Val("func()", 1, FALSE, << >>) }

EqTs == { Val("EqT", n, FALSE, << >>) : n \in 0..(MaxInt + 1) }

\* a type whose Equal method reports false for every pair
NeqTs == { Val("NeqT", 0, FALSE, << >>) }

SeqsUpTo(S, k) == UNION { [1..m -> S] : m \in 0..k }

Slices == { Val("[]int", 0, TRUE, << >>) }
            \cup { Val("[]int", 0, FALSE, e) : e \in SeqsUpTo(Ints, MaxLen) }

Ptrs == { Val("*int", 0, TRUE, << >>) }
          \cup { Val("*int", 0, FALSE, << v >>) : v \in Ints }

Structs == { Val("S", 0, FALSE, << a, b >>) : a \in Ints, b \in Ints }

EqSs == { Val("EqS", 0, FALSE, << a >>) : a \in Ints }

Concrete == Ints \cup Floats \cup Funcs \cup EqTs \cup NeqTs \cup Slices \cup Ptrs
              \cup Structs \cup EqSs

\* the inputs of Equal and Diff; Invalid stands for an untyped nil argument
Inputs == Concrete \cup { Invalid }

\* a map is the sequence of its entries in the order a range over it yields
\* them; an entry holds its key and its value; no two entries have the same
\* key, NaN keys apart, which are equal to nothing
Entry(k, v) == Val("entry", 0, FALSE, << k, v >>)

IsNaN(k) == k.t = "float64" /\ k.f

MapKeys(v) == [i \in DOMAIN v.e |-> v.e[i].e[1]]

\* MapIndex: the zero Value when no entry has the key
MapIndex(v, k) ==
    IF ~IsNaN(k) /\ \E i \in DOMAIN v.e : v.e[i].e[1] = k
    THEN v.e[CHOOSE i \in DOMAIN v.e : v.e[i].e[1] = k].e[2]
    ELSE Invalid

RECURSIVE ContainsNaN(_)
ContainsNaN(v) ==
    (v.t = "float64" /\ v.f) \/ \E i \in DOMAIN v.e : ContainsNaN(v.e[i])

\* x.Interface() == y.Interface() for two keys of one map
InterfaceEqual(a, b) == a = b /\ ~ContainsNaN(a)

\* isLess with the float case reduced to fx < fy
isLessPlain(a, b) == ~a.f /\ ~b.f /\ a.n < b.n

\* isLess, by the kind of x; the kinds that cannot be map keys answer false
\* here (the code panics on them)
RECURSIVE isLess(_, _)
RECURSIVE isLessFrom(_, _, _)
isLess(a, b) ==
    LET k == Kind(a.t)
    IN CASE k = "Bool" -> a.n = 0 /\ b.n = 1
         [] k = "Int" -> a.n < b.n
         [] k = "Float" -> (~a.f /\ ~b.f /\ a.n < b.n) \/ (a.f /\ ~b.f)
         [] k = "Complex" ->
              LET rx == a.e[1]
                  ix == a.e[2]
                  ry == b.e[1]
                  iy == b.e[2]
              IN IF (~rx.f /\ ~ry.f /\ rx.n = ry.n) \/ (rx.f /\ ry.f)
                 THEN (~ix.f /\ ~iy.f /\ ix.n < iy.n) \/ (ix.f /\ ~iy.f)
                 ELSE (~rx.f /\ ~ry.f /\ rx.n < ry.n) \/ (rx.f /\ ~ry.f)
         [] k = "Array" -> isLessFrom(a, b, 1)
         [] k = "Struct" -> isLessFrom(a, b, 1)
         [] k = "Interface" ->
              IF a.f \/ b.f THEN a.f /\ ~b.f
              ELSE LET tx == a.e[1].t
                       ty == b.e[1].t
                   IN IF tx = ty THEN isLess(a.e[1], b.e[1])
                      ELSE IF Kind(tx) # Kind(ty) THEN KindNumber(tx) < KindNumber(ty)
                      ELSE IF TypeString(tx) # TypeString(ty)
                           THEN StringLess(TypeString(tx), TypeString(ty))
                      ELSE IF PkgPath(tx) # PkgPath(ty)
                           THEN StringLess(PkgPath(tx), PkgPath(ty))
                      ELSE TypePointer(tx) < TypePointer(ty)
         [] OTHER -> FALSE

\* the loop over the elements of an array or the fields of a struct
isLessFrom(a, b, i) ==
    IF i > Len(a.e) THEN FALSE
    ELSE IF isLess(a.e[i], b.e[i]) THEN TRUE
    ELSE IF isLess(b.e[i], a.e[i]) THEN FALSE
    ELSE isLessFrom(a, b, i + 1)

\* sortKeys: sort by isLess, then drop a key equal to the one before it
sortKeys(vs) ==
    LET RECURSIVE insert(_, _)
        insert(sorted, k) ==
            IF sorted = << >> THEN << k >>
            ELSE IF isLess(k, Head(sorted)) THEN << k >> \o sorted
            ELSE << Head(sorted) >> \o insert(Tail(sorted), k)
        RECURSIVE sort(_, _)
        sort(rest, acc) == IF rest = << >> THEN acc
                           ELSE sort(Tail(rest), insert(acc, Head(rest)))
        RECURSIVE dedup(_, _)
        dedup(rest, vs2) ==
            IF rest = << >> THEN vs2
            ELSE dedup(Tail(rest),
                       IF ~InterfaceEqual(Head(rest), vs2[Len(vs2)])
                       THEN Append(vs2, Head(rest)) ELSE vs2)
    IN IF vs = << >> THEN vs
       ELSE dedup(Tail(sort(vs, << >>)), << Head(sort(vs, << >>)) >>)

\* ------------------------------------------------ user-supplied functions
\* func(T, T) bool bodies, by name: Comparers, FilterValues predicates and
\* Equal methods.  "le" is not symmetric; the others are symmetric.
Call2(fnc, x, y) ==
    CASE fnc = "always" -> TRUE
      [] fnc = "never" -> FALSE
      [] fnc = "sameParity" -> (x.n % 2) = (y.n % 2)
      [] fnc = "anyZero" -> x.n = 0 \/ y.n = 0
      [] fnc = "le" -> x.n <= y.n
      [] fnc = "sameString" -> x.n = y.n
      [] OTHER -> FALSE

Symmetric(fnc) ==
    fnc \in {"always", "never", "sameParity", "anyZero", "sameString"}

\* func(T) R bodies, by name: Transformers
Call1(fnc, x) ==
    CASE fnc = "half" -> Val("int", x.n \div 2, FALSE, << >>)
      [] fnc = "toFloat" -> Val("float64", x.n, FALSE, << >>)
      [] fnc = "toInt" -> Val("int", x.n, FALSE, << >>)
      [] fnc = "spread" ->
            Val("[]int", 0, FALSE,
                [i \in 1..x.n |-> Val("int", x.n - 1, FALSE, << >>)])
      [] OTHER -> x

OutType(fnc) ==
    CASE fnc = "toFloat" -> "float64"
      [] fnc = "spread" -> "[]int"
      [] OTHER -> "int"

\* the Equal method of the types that have one
EqualMethod(t) ==
    CASE t = "EqT" -> "sameParity"
      [] t = "NeqT" -> "never"
      [] OTHER -> "always"

\* func(Path) bool bodies, by name: FilterPath predicates
CallP(fnc, p) ==
    CASE fnc = "lastInt" -> Len(p) > 0 /\ Kind(p[Len(p)].typ) = "Int"
      [] fnc = "fieldb" -> Len(p) > 0 /\ p[Len(p)].kind = "structField"
                                      /\ p[Len(p)].name = "b"
      [] fnc = "fields" -> Len(p) > 0 /\ p[Len(p)].kind = "structField"
                                      /\ p[Len(p)].name = "s"
      [] fnc = "atRoot" -> Len(p) = 1
      [] fnc = "zeroLast" ->
            /\ Len(p) > 0
            /\ \/ p[Len(p)].vx.t = "int" /\ p[Len(p)].vx.n = 0
               \/ p[Len(p)].vy.t = "int" /\ p[Len(p)].vy.n = 0
      [] OTHER -> FALSE

\* ------------------------------------------------------------ options ---
\* An Option is a record [o, typ, fnc, sub]; typ = "" is the nil reflect.Type
Opt(o, typ, fnc, sub) == [o |-> o, typ |-> typ, fnc |-> fnc, sub |-> sub]

NilOpt == Opt("nil", "", "", << >>)

Ignore == Opt("ignore", "", "", << >>)

invalid == Opt("invalid", "", "", << >>)

validator == Opt("validator", "", "", << >>)

\* the input type T of a user function; "" (the nil reflect.Type) when T is
\* the empty interface, the interface type itself when T has methods
InType(fnc) ==
    CASE fnc \in {"always", "never", "ident"} -> ""
      [] fnc = "sameString" -> "fmt.Stringer"
      [] fnc = "toInt" -> "float64"
      [] OTHER -> "int"

Comparer(fnc) == Opt("comparer", InType(fnc), fnc, << >>)

Transformer(fnc) == Opt("transformer", InType(fnc), fnc, << >>)

OptionsOf(list) == Opt("Options", "", "", list)

RECURSIVE flattenOptions(_, _)
flattenOptions(dst, src) ==
    IF src = << >> THEN dst
    ELSE LET opt == Head(src)
             d == CASE opt.o = "nil" -> dst
                    [] opt.o = "Options" -> flattenOptions(dst, opt.sub)
                    [] OTHER -> Append(dst, opt)
         IN flattenOptions(d, Tail(src))

normalizeOption(src) ==
    LET opts == flattenOptions(<< >>, << src >>)
    IN CASE Len(opts) = 0 -> NilOpt
         [] Len(opts) = 1 -> opts[1]
         [] OTHER -> OptionsOf(opts)

FilterPath(fnc, opt) ==
    LET n == normalizeOption(opt)
    IN IF n.o = "nil" THEN NilOpt ELSE Opt("pathFilter", "", fnc, << n >>)

FilterValues(fnc, opt) ==
    LET n == normalizeOption(opt)
    IN IF n.o = "nil" THEN NilOpt ELSE Opt("valuesFilter", InType(fnc), fnc, << n >>)

AllowUnexported(t) == Opt("visibleStructs", t, "", << >>)

reporterOption == Opt("reporter", "", "", << >>)

\* structTypes with every struct value visited, of a type seen before or not
RECURSIVE structTypesEveryValue(_, _)
RECURSIVE eachEveryValue(_, _)
structTypesEveryValue(v, m) ==
    IF ~IsValid(v) THEN m
    ELSE LET k == Kind(v.t)
         IN CASE k \in {"Ptr", "Interface"} ->
                   IF v.f THEN m ELSE structTypesEveryValue(v.e[1], m)
              [] k = "Slice" -> eachEveryValue(v.e, m)
              [] k = "Map" -> eachEveryValue([i \in DOMAIN v.e |-> v.e[i].e[2]], m)
              [] k = "Struct" ->
                   eachEveryValue(v.e, IF \E i \in DOMAIN m : m[i] = v.t THEN m
                                       ELSE Append(m, v.t))
              [] OTHER -> m

eachEveryValue(vs, m) ==
    IF vs = << >> THEN m
    ELSE eachEveryValue(Tail(vs), structTypesEveryValue(Head(vs), m))

\* structTypes: m is the list of the struct types found so far
RECURSIVE structTypes(_, _)
RECURSIVE structTypesEach(_, _)
structTypes(v, m) ==
    IF ~IsValid(v) THEN m
    ELSE LET k == Kind(v.t)
         IN CASE k \in {"Ptr", "Interface"} ->
                   IF v.f THEN m ELSE structTypes(v.e[1], m)
              [] k = "Slice" -> structTypesEach(v.e, m)
              [] k = "Map" -> structTypesEach([i \in DOMAIN v.e |-> v.e[i].e[2]], m)
              [] k = "Struct" ->
                   IF \E i \in DOMAIN m : m[i] = v.t THEN m
                   ELSE structTypesEach(v.e, Append(m, v.t))
              [] OTHER -> m

\* the loops over elements, map values and fields
structTypesEach(vs, m) ==
    IF vs = << >> THEN m
    ELSE structTypesEach(Tail(vs), structTypes(Head(vs), m))

\* DeepAllowUnexported of one value: AllowUnexported of the types found
DeepAllowUnexported(v) ==
    LET m == structTypes(v, << >>)
    IN OptionsOf([i \in DOMAIN m |-> AllowUnexported(m[i])])

isCore(opt) ==
    opt.o \in {"ignore", "invalid", "validator", "comparer", "transformer",
               "pathFilter", "valuesFilter"}

isFilteredAlways(opt) == TRUE

\* the isFiltered method, which only ignore, comparer and transformer have
isFiltered(opt) ==
    CASE opt.o = "ignore" -> FALSE
      [] opt.o \in {"comparer", "transformer"} -> opt.typ # ""
      [] OTHER -> TRUE

\* ----------------------------------------------------- default reporter ---
maxBytes == 4096
maxLines == 256
DiffBytes == 16
DiffLines == 3

newReporter ==
    [curVals |-> << >>, diffs |-> << >>, ndiffs |-> 0, nbytes |-> 0, nlines |-> 0,
     events |-> << >>]

\* the calls a reporter receives, each with the length of its path after
\* it, the values on top of it, and the flags of a Report
Received(r, e, f) ==
    [r EXCEPT !.events =
         Append(@, [e |-> e, n |-> Len(r.curVals), f |-> f,
                    vals |-> IF r.curVals = << >> THEN << >>
                             ELSE r.curVals[Len(r.curVals)]])]

PushStep(r, ps) ==
    Received([r EXCEPT !.curVals = Append(@, << ps.vx, ps.vy >>)], "PushStep", {})

PopStep(r) ==
    Received([r EXCEPT !.curVals = SubSeq(@, 1, Len(@) - 1)], "PopStep", {})

\* report, for a difference whose text s has nb bytes and nl newlines
reportSized(r, s, nb, nl) ==
    LET r1 == [r EXCEPT !.ndiffs = @ + 1]
    IN IF r.nbytes < maxBytes /\ r.nlines < maxLines
       THEN [r1 EXCEPT !.diffs = Append(@, s),
                       !.nbytes = @ + nb,
                       !.nlines = @ + nl]
       ELSE r1

reporterReport(r, x, y, depth) ==
    reportSized(r, [depth |-> depth, x |-> x, y |-> y], DiffBytes, DiffLines)

Report(r, f) ==
    IF f = {"reportUnequal"}
    THEN LET vs == r.curVals[Len(r.curVals)]
         IN Received(reporterReport(r, vs[1], vs[2], Len(r.curVals)), "Report", f)
    ELSE Received(r, "Report", f)

\* String: the joined differences and the number announced as dropped
String(r) ==
    [s |-> r.diffs,
     more |-> IF r.ndiffs = Len(r.diffs) THEN 0 ELSE r.ndiffs - Len(r.diffs)]

\* String of the older reporter: the number announced is len(r.diffs) less
\* r.ndiffs
StringV1(r) ==
    [s |-> r.diffs,
     more |-> IF r.ndiffs = Len(r.diffs) THEN 0 ELSE Len(r.diffs) - r.ndiffs]

EmptyString(d) == d.s = << >> /\ d.more = 0

\* --------------------------------------------------- comparison state ---
Panic(s, msg) == IF s.panic = "" THEN [s EXCEPT !.panic = msg] ELSE s

\* the observation log: what happened, at which depth; a push also records
\* the path that now ends in the node being visited, an apply the option
LogOpt(s, ev, opt) ==
    [s EXCEPT !.log = Append(@, [ev |-> ev, d |-> Len(s.curPath),
                                 path |-> IF ev = "push" THEN s.curPath
                                          ELSE << >>,
                                 opt |-> opt])]

Log(s, ev) == LogOpt(s, ev, NilOpt)

reportByMethod == {"reportByMethod"}

report(s, eq, rf) ==
    LET counted == "reportIgnored" \notin rf
        rf2 == IF ~counted THEN rf
               ELSE rf \cup {IF eq THEN "reportEqual" ELSE "reportUnequal"}
        res == IF ~counted THEN s.result
               ELSE IF eq THEN [s.result EXCEPT !.NumSame = @ + 1]
               ELSE [s.result EXCEPT !.NumDiff = @ + 1]
        s1 == [s EXCEPT !.result = res,
                        !.reporters = [i \in DOMAIN @ |-> Report(@[i], rf2)]]
    IN Log(s1, IF ~counted THEN "report:ignored"
               ELSE IF eq THEN "report:equal" ELSE "report:unequal")

reportIgnore(s) == report(s, TRUE, {"reportIgnored"})

ResultEqual(res) == res.NumDiff = 0

\* a Next whose period never grows
dynNextFixed(dc) ==
    LET ok == dc.curr = dc.next
    IN [ok |-> ok,
        dc |-> IF ok THEN [curr |-> 1, next |-> 1]
               ELSE [curr |-> dc.curr + 1, next |-> dc.next]]

\* dynChecker.Next
dynNext(dc) ==
    LET ok == dc.curr = dc.next
    IN [ok |-> ok,
        dc |-> IF ok THEN [curr |-> 1, next |-> dc.next + 1]
               ELSE [curr |-> dc.curr + 1, next |-> dc.next]]

\* one record per call of dynChecker.Next (dsCheck in the older engine): the
\* function, whether the call was sampled, the argument pairs the function
\* was evaluated on, in order, with the results, and the value returned
Invoked(s, kind, fnc, sampled, evals, ret) ==
    [s EXCEPT !.calls = Append(@, [kind |-> kind, fnc |-> fnc,
                                   sampled |-> sampled, evals |-> evals,
                                   ret |-> ret, d |-> Len(s.log)])]

Eval2(fnc, x, y) == [x |-> x, y |-> y, r |-> Call2(fnc, x, y)]

NonSymmetricPanic == "non-deterministic or non-symmetric function detected"

\* a callTTBFunc that never takes the sampled branch
callTTBFuncOnce(s, fnc, x, y) ==
    LET nx == dynNext(s.dynChecker)
        s1 == Log([s EXCEPT !.dynChecker = nx.dc], "call")
        want == Call2(fnc, x, y)
    IN [s |-> Invoked(s1, "TTB", fnc, nx.ok, << Eval2(fnc, x, y) >>, want),
        ret |-> want]

callTTBFunc(s, fnc, x, y) ==
    LET nx == dynNext(s.dynChecker)
        s1 == Log([s EXCEPT !.dynChecker = nx.dc], "call")
        want == Call2(fnc, x, y)
        got == Call2(fnc, y, x)
    IN IF ~nx.ok
       THEN [s |-> Invoked(s1, "TTB", fnc, FALSE, << Eval2(fnc, x, y) >>, want),
             ret |-> want]
       ELSE LET s2 == Invoked(s1, "TTB", fnc, TRUE,
                              << Eval2(fnc, y, x), Eval2(fnc, x, y) >>, want)
            IN IF got # want
               THEN [s |-> Panic(s2, NonSymmetricPanic), ret |-> want]
               ELSE [s |-> s2, ret |-> want]

\* ------------------------------------------------------- path steps ---
PathStep(kind, typ, vx, vy) ==
    [kind |-> kind, typ |-> typ, vx |-> vx, vy |-> vy, name |-> "",
     unexported |-> FALSE, mayForce |-> FALSE, trans |-> ""]

\* step.Values(): an unexported field that may not be forced yields nothing
Values(step) ==
    IF step.unexported /\ ~step.mayForce THEN << Invalid, Invalid >>
    ELSE << step.vx, step.vy >>

withIndexes(t, vx, vy, ix, iy) ==
    PathStep("sliceIndex", Elem(t),
             IF ix >= 1 THEN vx.e[ix] ELSE Invalid,
             IF iy >= 1 THEN vy.e[iy] ELSE Invalid)

\* ---------------------------------------------- sequence differ (diff) ---
RECURSIVE editCost(_, _, _, _, _)
editCost(nx, ny, eqAt, i, j) ==
    IF i > nx THEN ny - j + 1
    ELSE IF j > ny THEN nx - i + 1
    ELSE LET d == (IF eqAt[(i - 1) * ny + j] THEN 0 ELSE 1)
                  + editCost(nx, ny, eqAt, i + 1, j + 1)
             a == 1 + editCost(nx, ny, eqAt, i + 1, j)
             b == 1 + editCost(nx, ny, eqAt, i, j + 1)
         IN IF d <= a /\ d <= b THEN d ELSE IF a <= b THEN a ELSE b

RECURSIVE editScript(_, _, _, _, _)
editScript(nx, ny, eqAt, i, j) ==
    IF i > nx /\ j > ny THEN << >>
    ELSE IF i > nx THEN << "UniqueY" >> \o editScript(nx, ny, eqAt, i, j + 1)
    ELSE IF j > ny THEN << "UniqueX" >> \o editScript(nx, ny, eqAt, i + 1, j)
    ELSE LET c == editCost(nx, ny, eqAt, i, j)
             e == eqAt[(i - 1) * ny + j]
         IN IF c = (IF e THEN 0 ELSE 1) + editCost(nx, ny, eqAt, i + 1, j + 1)
            THEN << IF e THEN "Identity" ELSE "Modified" >>
                 \o editScript(nx, ny, eqAt, i + 1, j + 1)
            ELSE IF c = 1 + editCost(nx, ny, eqAt, i + 1, j)
            THEN << "UniqueX" >> \o editScript(nx, ny, eqAt, i + 1, j)
            ELSE << "UniqueY" >> \o editScript(nx, ny, eqAt, i, j + 1)

\* diff.Difference, given the results of f on every pair (row-major)
Difference(nx, ny, eqAt) == editScript(nx, ny, eqAt, 1, 1)

\* ------------------------------------------------------------ engine ---
RECURSIVE compareAny(_, _)
RECURSIVE filter(_, _, _, _, _)
RECURSIVE OptionsFilterFrom(_, _, _, _, _, _, _)
RECURSIVE apply(_, _, _, _)
RECURSIVE compareStructFrom(_, _, _, _, _)
RECURSIVE compareSlice(_, _, _, _)
RECURSIVE compareMapFrom(_, _, _, _, _)
RECURSIVE scanIgnored(_, _, _, _, _, _, _)
RECURSIVE diffCalls(_, _, _, _, _, _, _, _)
RECURSIVE replay(_, _, _, _, _, _, _, _, _)

\* the comparison state at the call of statelessCompare and at its return
Compared(s, old, res) ==
    [s EXCEPT !.compares =
         Append(@, [before |-> [result |-> old.result, curPath |-> old.curPath,
                               reporters |-> old.reporters, exporters |-> old.exporters,
                               opts |-> old.opts],
                    after |-> [result |-> s.result, curPath |-> s.curPath,
                              reporters |-> s.reporters, exporters |-> s.exporters,
                              opts |-> s.opts],
                    res |-> res,
                    dynChecker |-> << old.dynChecker, s.dynChecker >>])]

\* statelessCompare with the reporters left in place: they are the
\* caller's reporter objects and keep what they receive
statelessCompareReporting(s, step) ==
    LET s1 == [s EXCEPT !.result = [NumSame |-> 0, NumDiff |-> 0]]
        s2 == compareAny(s1, step)
    IN [res |-> s2.result,
        s |-> IF s2.panic # "" THEN s2
              ELSE Compared([s2 EXCEPT !.result = s.result], s, s2.result)]

\* a panic of compareAny leaves statelessCompare before the two fields are
\* put back
statelessCompare(s, step) ==
    LET s1 == [s EXCEPT !.result = [NumSame |-> 0, NumDiff |-> 0],
                        !.reporters = << >>]
        s2 == compareAny(s1, step)
    IN [res |-> s2.result,
        s |-> IF s2.panic # "" THEN s2
              ELSE Compared([s2 EXCEPT !.result = s.result,
                                       !.reporters = s.reporters], s, s2.result)]

callTRFunc(s, fnc, v, step) ==
    LET nx == dynNext(s.dynChecker)
        s1 == Invoked(Log([s EXCEPT !.dynChecker = nx.dc], "call"),
                      "TR", fnc, nx.ok, << >>, FALSE)
        got == Call1(fnc, v)
        want == Call1(fnc, v)
        c1 == statelessCompare(s1, [step EXCEPT !.vx = got, !.vy = want])
        c2 == statelessCompare(c1.s, [step EXCEPT !.vx = want, !.vy = want])
    IN IF ~nx.ok THEN [s |-> s1, ret |-> want]
       ELSE IF ResultEqual(c1.res) THEN [s |-> c1.s, ret |-> want]
       ELSE IF ~ResultEqual(c2.res) THEN [s |-> c2.s, ret |-> want]
       ELSE [s |-> Panic(c2.s, "non-deterministic function detected"), ret |-> want]

\* validator.filter: values that are missing or may not be read
validatorFilter(s, vx, vy) ==
    [out |-> IF ~IsValid(vx) \/ ~IsValid(vy) THEN invalid ELSE NilOpt, s |-> s]

\* a filter that refuses every Transformer used anywhere in the path
transformerFilterWholePath(s, tr, t) ==
    IF \E i \in DOMAIN s.curPath : s.curPath[i].trans = tr.fnc THEN NilOpt
    ELSE IF tr.typ = "" \/ AssignableTo(t, tr.typ) THEN tr
    ELSE NilOpt

transformerFilter(s, tr, t) ==
    LET p == s.curPath
        \* the trailing run of Transform steps of the current path
        run == { i \in 1..Len(p) :
                   \A j \in i..Len(p) : p[j].kind = "transform" }
    IN IF \E i \in run : p[i].trans = tr.fnc THEN NilOpt
       ELSE IF tr.typ = "" \/ AssignableTo(t, tr.typ) THEN tr
       ELSE NilOpt

comparerFilter(cm, t) ==
    IF cm.typ = "" \/ AssignableTo(t, cm.typ) THEN cm ELSE NilOpt

valuesFilter(s, f, t, vx, vy) ==
    IF ~IsValid(vx) \/ ~IsValid(vy) THEN [out |-> invalid, s |-> s]
    ELSE IF f.typ = "" \/ AssignableTo(t, f.typ)
    THEN LET c == callTTBFunc(s, f.fnc, vx, vy)
         IN IF c.s.panic # "" THEN [out |-> NilOpt, s |-> c.s]
            ELSE IF c.ret THEN filter(c.s, f.sub[1], t, vx, vy)
            ELSE [out |-> NilOpt, s |-> c.s]
    ELSE [out |-> NilOpt, s |-> s]

pathFilter(s, f, t, vx, vy) ==
    IF CallP(f.fnc, s.curPath) THEN filter(s, f.sub[1], t, vx, vy)
    ELSE [out |-> NilOpt, s |-> s]

\* on a conflict the first applicable option silently wins
OptionsStepKeepFirst(out, opt) ==
    CASE opt.o = "invalid" -> invalid
      [] opt.o \in {"comparer", "transformer", "Options"} ->
            (IF out.o = "nil" THEN opt ELSE out)
      [] OTHER -> out

\* a comparer or transformer replaces an invalid found before it
OptionsStepOverInvalid(out, opt) ==
    CASE opt.o = "invalid" -> invalid
      [] opt.o \in {"comparer", "transformer", "Options"} ->
            (CASE out.o \in {"nil", "invalid"} -> opt
               [] OTHER -> OptionsOf(<< out, opt >>))
      [] OTHER -> out

\* the out value of Options.filter after one more member resolved to opt
OptionsStep(out, opt) ==
    CASE opt.o = "invalid" -> invalid
      [] opt.o \in {"comparer", "transformer", "Options"} ->
            (CASE out.o = "nil" -> opt
               [] out.o = "invalid" -> out
               [] OTHER -> OptionsOf(<< out, opt >>))
      [] OTHER -> out

\* ignore does not end the loop and is treated like a member that does not apply
OptionsFilterNextKeepGoing(r, opts, i, out, t, vx, vy) ==
    OptionsFilterFrom(r.s, opts, i + 1, OptionsStep(out, r.out), t, vx, vy)

\* the body of the loop of Options.filter, r being the member's own filter result
OptionsFilterNext(r, opts, i, out, t, vx, vy) ==
    IF r.out.o = "ignore" THEN [out |-> Ignore, s |-> r.s]
    ELSE OptionsFilterFrom(r.s, opts, i + 1, OptionsStep(out, r.out), t, vx, vy)

OptionsFilterFrom(s, opts, i, out, t, vx, vy) ==
    IF i > Len(opts) \/ s.panic # "" THEN [out |-> out, s |-> s]
    ELSE OptionsFilterNext(filter(s, opts[i], t, vx, vy), opts, i, out, t, vx, vy)

OptionsFilter(s, opts, t, vx, vy) ==
    OptionsFilterFrom(s, opts, 1, NilOpt, t, vx, vy)

filter(s, opt, t, vx, vy) ==
    CASE opt.o = "validator" -> validatorFilter(s, vx, vy)
      [] opt.o = "ignore" -> [out |-> Ignore, s |-> s]
      [] opt.o = "invalid" -> [out |-> invalid, s |-> s]
      [] opt.o = "comparer" -> [out |-> comparerFilter(opt, t), s |-> s]
      [] opt.o = "transformer" -> [out |-> transformerFilter(s, opt, t), s |-> s]
      [] opt.o = "pathFilter" -> pathFilter(s, opt, t, vx, vy)
      [] opt.o = "valuesFilter" -> valuesFilter(s, opt, t, vx, vy)
      [] opt.o = "Options" -> OptionsFilter(s, opt.sub, t, vx, vy)
      [] OTHER -> [out |-> NilOpt, s |-> s]

invalidApply(s) == Panic(s, "cannot handle unexported field")

\* validator.apply: a missing slice element is a leaf; an unreadable field panics
validatorApply(s) ==
    LET step == s.curPath[Len(s.curPath)]
    IN IF step.unexported /\ ~step.mayForce THEN invalidApply(s)
       ELSE report(Log(s, "apply:invalid"), IsValid(step.vx) = IsValid(step.vy), {})

comparerApply(s, cm, vx, vy) ==
    LET c == callTTBFunc(LogOpt(s, "apply:comparer", cm), cm.fnc, vx, vy)
    IN IF c.s.panic # "" THEN c.s ELSE report(c.s, c.ret, {})

\* transformer.apply once f(x) is known (cx) and once f(y) is known too (cy)
transformerApplyY(cy, vvx, step) ==
    compareAny(cy.s, [step EXCEPT !.vx = vvx, !.vy = cy.ret])

transformerApplyX(cx, tr, vy, step) ==
    transformerApplyY(callTRFunc(cx.s, tr.fnc, vy, step), cx.ret, step)

transformerApply(s, tr, vx, vy) ==
    LET step == [PathStep("transform", OutType(tr.fnc), Invalid, Invalid)
                   EXCEPT !.trans = tr.fnc]
    IN transformerApplyX(callTRFunc(LogOpt(s, "apply:transformer", tr),
                                    tr.fnc, vx, step),
                         tr, vy, step)

OptionsApply(s) == Panic(s, "ambiguous set of applicable options")

apply(s, opt, vx, vy) ==
    CASE opt.o = "ignore" -> reportIgnore(Log(s, "apply:ignore"))
      [] opt.o = "invalid" -> validatorApply(s)
      [] opt.o = "comparer" -> comparerApply(s, opt, vx, vy)
      [] opt.o = "transformer" -> transformerApply(s, opt, vx, vy)
      [] opt.o = "Options" -> OptionsApply(s)
      [] OTHER -> s

\* tryOptions once s.opts.filter has returned r
tryApply(r, vx, vy) ==
    IF r.s.panic # "" THEN [ok |-> TRUE, s |-> r.s]
    ELSE IF r.out.o # "nil" THEN [ok |-> TRUE, s |-> apply(r.s, r.out, vx, vy)]
    ELSE [ok |-> FALSE, s |-> r.s]

tryOptions(s, t, vx, vy) == tryApply(OptionsFilter(s, s.opts, t, vx, vy), vx, vy)

tryMethod(s, t, vx, vy) ==
    IF ~HasEqualMethod(t) THEN [ok |-> FALSE, s |-> s]
    ELSE LET c == callTTBFunc(Log(s, "method"), EqualMethod(t), vx, vy)
         IN [ok |-> TRUE,
             s |-> IF c.s.panic # "" THEN c.s ELSE report(c.s, c.ret, reportByMethod)]

compareStructFrom(s, t, vx, vy, i) ==
    IF i > Len(Fields(t)) \/ s.panic # "" THEN s
    ELSE LET fld == Fields(t)[i]
             unexp == ~isExported(fld.name)
             step == [PathStep("structField", fld.typ, vx.e[i], vy.e[i])
                        EXCEPT !.name = fld.name,
                               !.unexported = unexp,
                               !.mayForce = unexp /\ t \in s.exporters]
         IN IF unexp /\ fld.name = "_"
            THEN compareStructFrom(s, t, vx, vy, i + 1)
            ELSE compareStructFrom(compareAny(s, step), t, vx, vy, i + 1)

compareStruct(s, t, vx, vy) == compareStructFrom(s, t, vx, vy, 1)

\* the first loops of compareSlice: which elements are ignored standing alone
\* a scan that finds no element ignored
scanIgnoredNone(s, t, vx, vy, side, i, acc) ==
    [s |-> s,
     ignored |-> [k \in 1..(IF side = "x" THEN Len(vx.e) ELSE Len(vy.e)) |-> FALSE]]

scanIgnored(s, t, vx, vy, side, i, acc) ==
    LET n == IF side = "x" THEN Len(vx.e) ELSE Len(vy.e)
    IN IF i > n \/ s.panic # "" THEN [s |-> s, ignored |-> acc]
       ELSE LET step == IF side = "x" THEN withIndexes(t, vx, vy, i, 0)
                        ELSE withIndexes(t, vx, vy, 0, i)
                c == statelessCompare(s, step)
            IN scanIgnored(c.s, t, vx, vy, side, i + 1,
                           Append(acc, c.res.NumDiff = 0))

indexesOfIgnored(ignored) ==
    LET keep == { i \in DOMAIN ignored : ignored[i] }
        RECURSIVE asc(_, _)
        asc(i, acc) == IF i > Len(ignored) THEN acc
                       ELSE asc(i + 1, IF i \in keep THEN Append(acc, i) ELSE acc)
    IN asc(1, << >>)

indexesOf(ignored) ==
    LET keep == { i \in DOMAIN ignored : ~ignored[i] }
        RECURSIVE asc(_, _)
        asc(i, acc) == IF i > Len(ignored) THEN acc
                       ELSE asc(i + 1, IF i \in keep THEN Append(acc, i) ELSE acc)
    IN asc(1, << >>)

\* the calls Difference makes of its element comparison, on every pair
diffCalls(s, t, vx, vy, indexesX, indexesY, k, acc) ==
    LET ny == Len(indexesY)
    IN IF k > Len(indexesX) * ny \/ s.panic # "" THEN [s |-> s, eqAt |-> acc]
       ELSE LET ix == indexesX[((k - 1) \div ny) + 1]
                iy == indexesY[((k - 1) % ny) + 1]
                c == statelessCompare(s, withIndexes(t, vx, vy, ix, iy))
            IN diffCalls(c.s, t, vx, vy, indexesX, indexesY, k + 1,
                         Append(acc, ResultEqual(c.res)))

\* one turn of the last loop of compareSlice that takes an edit whenever the
\* x element is not ignored
replayStepEager(ignoredX, ignoredY, edits, ix, iy) ==
    LET fromX == ix < Len(ignoredX) /\ ignoredX[ix + 1]
        take == ~fromX
    IN IF take /\ edits = << >>
       THEN [panic |-> "index out of range", e |-> "", take |-> take,
             edits |-> edits, ix |-> ix, iy |-> iy]
       ELSE LET e == IF fromX THEN "UniqueX" ELSE Head(edits)
                rest == IF take THEN Tail(edits) ELSE edits
                dx == IF e = "UniqueY" THEN 0 ELSE 1
                dy == IF e = "UniqueX" THEN 0 ELSE 1
            IN [panic |-> IF (dx = 1 /\ ix >= Len(ignoredX)) \/ (dy = 1 /\ iy >= Len(ignoredY))
                          THEN "reflect: slice index out of range" ELSE "",
                e |-> e, take |-> take, edits |-> rest, ix |-> ix + dx, iy |-> iy + dy]

\* one turn of the last loop of compareSlice: the edit it acts on, what is
\* left of the script, and ix and iy (the elements consumed) after it;
\* ignoredX and ignoredY are as long as the slices
replayStep(ignoredX, ignoredY, edits, ix, iy) ==
    LET fromX == ix < Len(ignoredX) /\ ignoredX[ix + 1]
        fromY == iy < Len(ignoredY) /\ ignoredY[iy + 1]
        take == ~fromX /\ ~fromY
    IN IF take /\ edits = << >>
       THEN [panic |-> "index out of range", e |-> "", take |-> take,
             edits |-> edits, ix |-> ix, iy |-> iy]
       ELSE LET e == IF fromX THEN "UniqueX"
                     ELSE IF fromY THEN "UniqueY" ELSE Head(edits)
                rest == IF take THEN Tail(edits) ELSE edits
                dx == IF e = "UniqueY" THEN 0 ELSE 1
                dy == IF e = "UniqueX" THEN 0 ELSE 1
            IN [panic |-> IF (dx = 1 /\ ix >= Len(ignoredX)) \/ (dy = 1 /\ iy >= Len(ignoredY))
                          THEN "reflect: slice index out of range" ELSE "",
                e |-> e, take |-> take, edits |-> rest, ix |-> ix + dx, iy |-> iy + dy]

\* the last loop of compareSlice; ix and iy count the elements consumed
replay(s, t, vx, vy, ignoredX, ignoredY, edits, ix, iy) ==
    IF ~(ix < Len(vx.e) \/ iy < Len(vy.e)) \/ s.panic # "" THEN s
    ELSE LET r == replayStep(ignoredX, ignoredY, edits, ix, iy)
         IN IF r.panic # "" THEN Panic(s, r.panic)
            ELSE replay(compareAny(s, withIndexes(t, vx, vy,
                                                  IF r.ix > ix THEN r.ix ELSE 0,
                                                  IF r.iy > iy THEN r.iy ELSE 0)),
                        t, vx, vy, ignoredX, ignoredY, r.edits, r.ix, r.iy)

\* what compareSlice hands to diff.Difference at the node s.curPath
Sliced(s, ignoredX, ignoredY, indexesX, indexesY) ==
    [s EXCEPT !.slices = Append(@, [path |-> s.curPath,
                                    ignoredX |-> ignoredX, ignoredY |-> ignoredY,
                                    indexesX |-> indexesX, indexesY |-> indexesY])]

compareSlice(s, t, vx, vy) ==
    LET sx == scanIgnored(s, t, vx, vy, "x", 1, << >>)
        sy == scanIgnored(sx.s, t, vx, vy, "y", 1, << >>)
        indexesX == indexesOf(sx.ignored)
        indexesY == indexesOf(sy.ignored)
        dc == diffCalls(Sliced(sy.s, sx.ignored, sy.ignored, indexesX, indexesY),
                        t, vx, vy, indexesX, indexesY, 1, << >>)
        edits == Difference(Len(indexesX), Len(indexesY), dc.eqAt)
    IN IF dc.s.panic # "" THEN dc.s
       ELSE replay(dc.s, t, vx, vy, sx.ignored, sy.ignored, edits, 0, 0)

NaNKeyPanic == "has map key with NaNs"

\* a loop over the keys that skips the keys neither map yields a value for
compareMapSkipping(s, t, vx, vy, keys) ==
    IF keys = << >> \/ s.panic # "" THEN s
    ELSE LET step == PathStep("mapIndex", Elem(t), MapIndex(vx, Head(keys)),
                              MapIndex(vy, Head(keys)))
         IN IF ~IsValid(step.vx) /\ ~IsValid(step.vy)
            THEN compareMapFrom(s, t, vx, vy, Tail(keys))
            ELSE compareMapFrom(compareAny(s, step), t, vx, vy, Tail(keys))

\* the loop of compareMap over the sorted keys
compareMapFrom(s, t, vx, vy, keys) ==
    IF keys = << >> \/ s.panic # "" THEN s
    ELSE LET step == PathStep("mapIndex", Elem(t), MapIndex(vx, Head(keys)),
                              MapIndex(vy, Head(keys)))
         IN IF ~IsValid(step.vx) /\ ~IsValid(step.vy)
            THEN Panic(s, NaNKeyPanic)
            ELSE compareMapFrom(compareAny(s, step), t, vx, vy, Tail(keys))

\* a compareMap that takes a nil map for an empty one
compareMapNilAsEmpty(s, t, vx, vy) ==
    compareMapFrom(s, t, vx, vy, sortKeys(MapKeys(vx) \o MapKeys(vy)))

\* a compareMap that walks the keys of x only
compareMapKeysOfX(s, t, vx, vy) ==
    IF vx.f \/ vy.f THEN report(s, vx.f /\ vy.f, {})
    ELSE compareMapFrom(s, t, vx, vy, sortKeys(MapKeys(vx)))

compareMap(s, t, vx, vy) ==
    IF vx.f \/ vy.f THEN report(s, vx.f /\ vy.f, {})
    ELSE compareMapFrom(s, t, vx, vy, sortKeys(MapKeys(vx) \o MapKeys(vy)))

bothNilLeft(vx, vy) == vx.f

\* vx.IsNil() && vy.IsNil()
bothNil(vx, vy) == vx.f /\ vy.f

\* Rule 3 of compareAny: the switch on t.Kind()
compareKind(s, t, vx, vy) ==
    LET k == Kind(t)
    IN CASE k = "Int" -> report(s, vx.n = vy.n, {})
         [] k = "Float" -> report(s, ~vx.f /\ ~vy.f /\ vx.n = vy.n, {})
         [] k = "Func" -> report(s, bothNil(vx, vy), {})
         [] k = "Struct" -> compareStruct(s, t, vx, vy)
         [] k = "Slice" ->
               IF vx.f \/ vy.f THEN report(s, bothNil(vx, vy), {})
               ELSE compareSlice(s, t, vx, vy)
         [] k = "Map" -> compareMap(s, t, vx, vy)
         [] k = "Ptr" ->
               IF vx.f \/ vy.f THEN report(s, bothNil(vx, vy), {})
               ELSE compareAny(s, PathStep("indirect", Elem(t), vx.e[1], vy.e[1]))
         [] k = "Interface" ->
               IF vx.f \/ vy.f THEN report(s, bothNil(vx, vy), {})
               ELSE IF vx.e[1].t # vy.e[1].t THEN report(s, FALSE, {})
               ELSE compareAny(s, PathStep("typeAssertion", vx.e[1].t,
                                           vx.e[1], vy.e[1]))
         [] OTHER -> Panic(s, "kind not handled")

\* compareAny after Rule 2, m being what tryMethod returned
afterMethod(m, t, vx, vy) ==
    IF m.ok THEN m.s ELSE compareKind(Log(m.s, "kind"), t, vx, vy)

\* Rule 2 runs even when Rule 1 applied
afterOptionsThenMethod(o, t, vx, vy) ==
    afterMethod(tryMethod(o.s, t, vx, vy), t, vx, vy)

\* compareAny after Rule 1, o being what tryOptions returned
afterOptions(o, t, vx, vy) ==
    IF o.ok THEN o.s ELSE afterMethod(tryMethod(o.s, t, vx, vy), t, vx, vy)

\* the deferred calls of compareAny: curPath.pop and every reporter's PopStep
leave(s) ==
    [Log(s, "pop") EXCEPT !.curPath = SubSeq(@, 1, Len(@) - 1),
                          !.reporters = [i \in DOMAIN @ |-> PopStep(@[i])]]

\* the entry of compareAny: curPath.push and every reporter's PushStep
enter(s, step) ==
    Log([s EXCEPT !.curPath = Append(@, step),
                  !.reporters = [i \in DOMAIN @ |-> PushStep(@[i], step)]],
        "push")

compareAny(s, step) ==
    IF s.panic # "" THEN s
    ELSE leave(afterOptions(tryOptions(enter(s, step), step.typ,
                                       Values(step)[1], Values(step)[2]),
                            step.typ, Values(step)[1], Values(step)[2]))

RECURSIVE processOption(_, _)
processOption(s, opt) ==
    LET RECURSIVE each(_, _)
        each(st, list) == IF list = << >> THEN st
                          ELSE each(processOption(st, Head(list)), Tail(list))
    IN IF s.panic # "" THEN s
       ELSE CASE opt.o = "nil" -> s
              [] opt.o = "Options" -> each(s, opt.sub)
              [] isCore(opt) ->
                    IF ~isFiltered(opt)
                    THEN Panic(s, "cannot use an unfiltered option")
                    ELSE [s EXCEPT !.opts = Append(@, opt)]
              [] opt.o = "visibleStructs" -> [s EXCEPT !.exporters = @ \cup {opt.typ}]
              [] opt.o = "reporter" -> [s EXCEPT !.reporters = Append(@, newReporter)]
              [] OTHER -> Panic(s, "unknown option")

newState(opts) ==
    LET s0 == [result |-> [NumSame |-> 0, NumDiff |-> 0],
               curPath |-> << >>, reporters |-> << >>,
               dynChecker |-> [curr |-> 0, next |-> 0],
               exporters |-> {}, opts |-> << validator >>,
               panic |-> "", log |-> << >>, calls |-> << >>, slices |-> << >>,
               compares |-> << >>]
        RECURSIVE each(_, _)
        each(st, list) == IF list = << >> THEN st
                          ELSE each(processOption(st, Head(list)), Tail(list))
    IN each(s0, opts)

\* Equal, returning the whole final state; its boolean is EqualResult
Equal(x, y, opts) ==
    LET same == IsValid(x) /\ IsValid(y) /\ x.t = y.t
        t == IF same THEN x.t ELSE "interface{}"
        wrap(v) == IF IsValid(v) THEN Val("interface{}", 0, FALSE, << v >>) ELSE v
        vx == IF same THEN x ELSE wrap(x)
        vy == IF same THEN y ELSE wrap(y)
    IN compareAny(newState(opts), PathStep("root", t, vx, vy))

EqualResult(s) == ResultEqual(s.result)

\* Diff: the report, or the panic that ends it
\* Diff once Equal has returned with final state s
DiffOf(s) ==
    LET d == String(s.reporters[1])
    IN IF s.panic # ""
       THEN [panic |-> s.panic, d |-> String(newReporter), eq |-> EqualResult(s)]
       ELSE IF EmptyString(d) # EqualResult(s)
       THEN [panic |-> "inconsistent difference and equality results",
             d |-> d, eq |-> EqualResult(s)]
       ELSE [panic |-> "", d |-> d, eq |-> EqualResult(s)]

Diff(x, y, opts) == DiffOf(Equal(x, y, << OptionsOf(opts), reporterOption >>))

\* ------------------------------- the engine over flat option records ---
\* An option of the flat form: a type filter ("" for none), path filters,
\* value filters and the operation (kind "nil" makes it an Ignore).
optionV1(typeFilter, pathFilters, valueFilters, op) ==
    [o |-> "option", typeFilter |-> typeFilter, pathFilters |-> pathFilters,
     valueFilters |-> valueFilters, op |-> op]

IgnoreV1 == optionV1("", << >>, << >>, [kind |-> "nil", fnc |-> ""])

ComparerV1(fnc) ==
    optionV1(InType(fnc), << >>, << >>, [kind |-> "comparer", fnc |-> fnc])

TransformerV1(fnc) ==
    optionV1(InType(fnc), << >>, << >>, [kind |-> "transformer", fnc |-> fnc])

RECURSIVE FilterPathV1(_, _)
FilterPathV1(fnc, opt) ==
    CASE opt.o = "Options" ->
            OptionsOf([k \in DOMAIN opt.sub |-> FilterPathV1(fnc, opt.sub[k])])
      [] opt.o = "option" -> [opt EXCEPT !.pathFilters = Append(@, fnc)]
      [] OTHER -> Opt("unknown", "", "", << >>)

RECURSIVE FilterValuesV1(_, _)
FilterValuesV1(fnc, opt) ==
    LET in == IF InType(fnc) = "" THEN "interface{}" ELSE InType(fnc)
    IN CASE opt.o = "Options" ->
               OptionsOf([k \in DOMAIN opt.sub |-> FilterValuesV1(fnc, opt.sub[k])])
         [] opt.o = "option" ->
               [opt EXCEPT !.valueFilters = Append(@, [in |-> in, fnc |-> fnc])]
         [] OTHER -> Opt("unknown", "", "", << >>)

\* the value the flat constructors build for the option expression opt
RECURSIVE asV1(_)
asV1(opt) ==
    CASE opt.o = "ignore" -> IgnoreV1
      [] opt.o = "comparer" -> ComparerV1(opt.fnc)
      [] opt.o = "transformer" -> TransformerV1(opt.fnc)
      [] opt.o = "pathFilter" -> FilterPathV1(opt.fnc, asV1(opt.sub[1]))
      [] opt.o = "valuesFilter" -> FilterValuesV1(opt.fnc, asV1(opt.sub[1]))
      [] opt.o = "Options" -> OptionsOf([k \in DOMAIN opt.sub |-> asV1(opt.sub[k])])
      [] OTHER -> opt

RECURSIVE compareAnyV1(_, _, _)
RECURSIVE optsLoopV1(_, _, _, _, _, _)
RECURSIVE valueFiltersV1(_, _, _, _, _, _)
RECURSIVE compareStructFromV1(_, _, _, _, _)
RECURSIVE compareElemsV1(_, _, _, _)
RECURSIVE reportRestV1(_, _, _, _)
RECURSIVE compareMapFromV1(_, _, _, _)

reportV1(s, eq, vx, vy) ==
    Log([s EXCEPT !.eq = @ /\ eq,
                  !.reports = Append(@, [eq |-> eq, vx |-> vx, vy |-> vy]),
                  !.reporter = IF s.reporter.set /\ ~eq
                               THEN [@ EXCEPT !.r = reporterReport(@, vx, vy,
                                                                   Len(s.curPath))]
                               ELSE @],
        IF eq THEN "report:equal" ELSE "report:unequal")

\* the bookkeeping of dsCheck in callFunc: whether this call is checked, and
\* the counters after it
dsCheckV1(ds) ==
    LET check == ds.curr = ds.next
    IN [ok |-> check,
        ds |-> IF check THEN [curr |-> 1, next |-> ds.next + 1]
               ELSE [curr |-> ds.curr + 1, next |-> ds.next]]

callFuncV1(s, fnc, x, y) ==
    LET got == Call2(fnc, x, y)
        check == dsCheckV1(s.dsCheck).ok
        ds == dsCheckV1(s.dsCheck).ds
        evals == IF check THEN << Eval2(fnc, x, y), Eval2(fnc, y, x) >>
                 ELSE << Eval2(fnc, x, y) >>
        s1 == Log([s EXCEPT !.dsCheck = ds], "call")
    IN IF check /\ got # Call2(fnc, y, x)
       THEN [s |-> Panic(Invoked(Log(s, "call"), "TTB", fnc, check, evals, got),
                         NonSymmetricPanic),
             ret |-> got]
       ELSE [s |-> Invoked(s1, "TTB", fnc, check, evals, got), ret |-> got]

\* the loop of applyFilters over opt.valueFilters, c being the last call
valueFiltersNextV1(c, vx, vy, t, fs, i) ==
    IF c.s.panic # "" \/ ~c.ret THEN [ok |-> FALSE, s |-> c.s]
    ELSE valueFiltersV1(c.s, vx, vy, t, fs, i + 1)

valueFiltersV1(s, vx, vy, t, fs, i) ==
    IF i > Len(fs) THEN [ok |-> TRUE, s |-> s]
    ELSE IF ~AssignableTo(t, fs[i].in) THEN [ok |-> FALSE, s |-> s]
    ELSE valueFiltersNextV1(callFuncV1(s, fs[i].fnc, vx, vy), vx, vy, t, fs, i)

applyFiltersV1(s, vx, vy, t, opt) ==
    IF opt.typeFilter # "" /\ ~AssignableTo(t, opt.typeFilter)
    THEN [ok |-> FALSE, s |-> s]
    ELSE IF \E k \in DOMAIN opt.pathFilters : ~CallP(opt.pathFilters[k], s.curPath)
    THEN [ok |-> FALSE, s |-> s]
    ELSE valueFiltersV1(s, vx, vy, t, opt.valueFilters, 1)

applyOptionV1(s, vx, vy, t, opt) ==
    CASE opt.op.kind = "transformer" ->
            LET step == [PathStep("transform", OutType(opt.op.fnc), Invalid, Invalid)
                           EXCEPT !.trans = opt.op.fnc]
                s1 == LogOpt(s, "apply:transformer", opt)
                s2 == compareAnyV1([s1 EXCEPT !.curPath = Append(@, step)],
                                   Call1(opt.op.fnc, vx), Call1(opt.op.fnc, vy))
            IN [s2 EXCEPT !.curPath = SubSeq(@, 1, Len(@) - 1)]
      [] opt.op.kind = "comparer" ->
            LET c == callFuncV1(LogOpt(s, "apply:comparer", opt), opt.op.fnc, vx, vy)
            IN IF c.s.panic # "" THEN c.s ELSE reportV1(c.s, c.ret, vx, vy)
      [] OTHER -> s

\* the second loop of tryOptions once applyFilters has returned r for s.opts[i]
optsLoopNextV1(r, vx, vy, t, i, optIdx) ==
    IF r.s.panic # "" THEN [ok |-> TRUE, s |-> r.s]
    ELSE IF ~r.ok THEN optsLoopV1(r.s, vx, vy, t, i + 1, optIdx)
    ELSE IF r.s.opts[i].op.kind = "nil"
    THEN [ok |-> TRUE, s |-> Log(r.s, "apply:ignore")]
    ELSE IF optIdx >= 1
    THEN [ok |-> TRUE, s |-> Panic(r.s, "ambiguous set of options")]
    ELSE optsLoopV1(r.s, vx, vy, t, i + 1, i)

\* the second loop of tryOptions; optIdx = 0 while no option was found
optsLoopV1(s, vx, vy, t, i, optIdx) ==
    IF i > Len(s.opts)
    THEN IF optIdx >= 1
         THEN [ok |-> TRUE, s |-> applyOptionV1(s, vx, vy, t, s.opts[optIdx])]
         ELSE [ok |-> FALSE, s |-> s]
    ELSE optsLoopNextV1(applyFiltersV1(s, vx, vy, t, s.opts[i]), vx, vy, t, i, optIdx)

\* tryOptions without the check of unexported fields
tryOptionsUngatedV1(s, vx, vy, t) ==
    IF \E k \in DOMAIN s.optsIgn :
          applyFiltersV1(s, Invalid, Invalid, t, s.optsIgn[k]).ok
    THEN [ok |-> TRUE, s |-> Log(s, "apply:ignore")]
    ELSE optsLoopV1(s, vx, vy, t, 1, 0)

tryOptionsV1(s, vx, vy, t) ==
    LET sf == s.curPath[Len(s.curPath)]
    IN IF \E k \in DOMAIN s.optsIgn :
             applyFiltersV1(s, Invalid, Invalid, t, s.optsIgn[k]).ok
       THEN [ok |-> TRUE, s |-> Log(s, "apply:ignore")]
       ELSE IF sf.kind = "structField" /\ sf.unexported /\ ~sf.mayForce
       THEN [ok |-> TRUE, s |-> Panic(s, "cannot handle unexported field")]
       ELSE optsLoopV1(s, vx, vy, t, 1, 0)

tryMethodV1(s, vx, vy, t) ==
    IF ~HasEqualMethod(t) THEN [ok |-> FALSE, s |-> s]
    ELSE LET c == callFuncV1(Log(s, "method"), EqualMethod(t), vx, vy)
         IN [ok |-> TRUE,
             s |-> IF c.s.panic # "" THEN c.s ELSE reportV1(c.s, c.ret, vx, vy)]

\* compareArray: the elements both have, then the rest of the longer one
compareElemsV1(s, vx, vy, i) ==
    IF i > Len(vx.e) \/ i > Len(vy.e) \/ s.panic # "" THEN s
    ELSE compareElemsV1(compareAnyV1(s, vx.e[i], vy.e[i]), vx, vy, i + 1)

\* a compareArray that stops at the shorter length
reportRestNoneV1(s, vx, vy, i) == s

reportRestV1(s, vx, vy, i) ==
    IF s.panic # "" THEN s
    ELSE IF i <= Len(vx.e)
    THEN reportRestV1(reportV1(s, FALSE, vx.e[i], Invalid), vx, vy, i + 1)
    ELSE IF i <= Len(vy.e)
    THEN reportRestV1(reportV1(s, FALSE, Invalid, vy.e[i]), vx, vy, i + 1)
    ELSE s

compareArrayV1(s, vx, vy, t) ==
    LET nmin == IF Len(vx.e) > Len(vy.e) THEN Len(vy.e) ELSE Len(vx.e)
        step == PathStep("sliceIndex", Elem(t), Invalid, Invalid)
        s1 == compareElemsV1([s EXCEPT !.curPath = Append(@, step)], vx, vy, 1)
    IN [reportRestV1(s1, vx, vy, nmin + 1) EXCEPT
           !.curPath = SubSeq(@, 1, Len(@) - 1)]

\* s.exporters[t] for any struct type that was granted
forceAny(s, t) == s.exporters # {}

\* step.force = s.exporters[t]
force(s, t) == t \in s.exporters

compareStructFromV1(s, vx, vy, t, i) ==
    IF i > Len(Fields(t)) \/ s.panic # "" THEN s
    ELSE LET fld == Fields(t)[i]
             unexp == ~isExported(fld.name)
             step == [PathStep("structField", fld.typ, Invalid, Invalid)
                        EXCEPT !.name = fld.name,
                               !.unexported = unexp,
                               !.mayForce = unexp /\ force(s, t)]
             s1 == [s EXCEPT !.curPath[Len(s.curPath)] = step]
         IN compareStructFromV1(compareAnyV1(s1, vx.e[i], vy.e[i]), vx, vy, t, i + 1)

compareStructV1(s, vx, vy, t) ==
    LET step == PathStep("structField", "", Invalid, Invalid)
        s1 == compareStructFromV1([s EXCEPT !.curPath = Append(@, step)],
                                  vx, vy, t, 1)
    IN [s1 EXCEPT !.curPath = SubSeq(@, 1, Len(@) - 1)]

\* the loop of compareMap over the sorted keys
compareMapFromV1(s, vx, vy, keys) ==
    IF keys = << >> \/ s.panic # "" THEN s
    ELSE LET vvx == MapIndex(vx, Head(keys))
             vvy == MapIndex(vy, Head(keys))
         IN CASE IsValid(vvx) /\ IsValid(vvy) ->
                   compareMapFromV1(compareAnyV1(s, vvx, vvy), vx, vy, Tail(keys))
              [] IsValid(vvx) /\ ~IsValid(vvy) ->
                   compareMapFromV1(reportV1(s, FALSE, vvx, Invalid), vx, vy, Tail(keys))
              [] ~IsValid(vvx) /\ IsValid(vvy) ->
                   compareMapFromV1(reportV1(s, FALSE, Invalid, vvy), vx, vy, Tail(keys))
              [] OTHER -> Panic(s, NaNKeyPanic)

compareMapV1(s, vx, vy, t) ==
    IF vx.f \/ vy.f THEN reportV1(s, vx.f /\ vy.f, vx, vy)
    ELSE LET step == PathStep("mapIndex", Elem(t), Invalid, Invalid)
         IN [compareMapFromV1([s EXCEPT !.curPath = Append(@, step)], vx, vy,
                              sortKeys(MapKeys(vx) \o MapKeys(vy)))
               EXCEPT !.curPath = SubSeq(@, 1, Len(@) - 1)]

\* descending through a pointer or an interface: push, compare, deferred pop
descendV1(s, kind, vx, vy) ==
    LET step == PathStep(kind, vx.t, Invalid, Invalid)
        s1 == compareAnyV1([s EXCEPT !.curPath = Append(@, step)], vx, vy)
    IN [s1 EXCEPT !.curPath = SubSeq(@, 1, Len(@) - 1)]

compareKindV1(s, vx, vy, t) ==
    LET k == Kind(t)
    IN CASE k = "Int" -> reportV1(s, vx.n = vy.n, vx, vy)
         [] k = "Float" -> reportV1(s, ~vx.f /\ ~vy.f /\ vx.n = vy.n, vx, vy)
         [] k = "Func" -> reportV1(s, bothNil(vx, vy), vx, vy)
         [] k = "Ptr" ->
               IF vx.f \/ vy.f THEN reportV1(s, bothNil(vx, vy), vx, vy)
               ELSE descendV1(s, "indirect", vx.e[1], vy.e[1])
         [] k = "Interface" ->
               IF vx.f \/ vy.f THEN reportV1(s, bothNil(vx, vy), vx, vy)
               ELSE IF vx.e[1].t # vy.e[1].t
               THEN reportV1(s, FALSE, vx.e[1], vy.e[1])
               ELSE descendV1(s, "typeAssertion", vx.e[1], vy.e[1])
         [] k = "Slice" ->
               IF vx.f \/ vy.f THEN reportV1(s, bothNil(vx, vy), vx, vy)
               ELSE compareArrayV1(s, vx, vy, t)
         [] k = "Struct" -> compareStructV1(s, vx, vy, t)
         [] k = "Map" -> compareMapV1(s, vx, vy, t)
         [] OTHER -> Panic(s, "kind not handled")

afterMethodV1(m, vx, vy, t) ==
    IF m.ok THEN m.s ELSE compareKindV1(Log(m.s, "kind"), vx, vy, t)

afterOptionsV1(o, vx, vy, t) ==
    IF o.ok THEN o.s ELSE afterMethodV1(tryMethodV1(o.s, vx, vy, t), vx, vy, t)

\* Rule 0 passed: the root step is pushed on an empty path; the log entry
\* of the node carries the path with the two values being compared
enterV1(s, vx, vy) ==
    LET s1 == IF s.curPath = << >>
              THEN [s EXCEPT !.curPath = << PathStep("root", vx.t, Invalid, Invalid) >>]
              ELSE s
        seen == [s1.curPath EXCEPT ![Len(s1.curPath)] =
                     [@ EXCEPT !.vx = vx, !.vy = vy]]
    IN [s1 EXCEPT !.log = Append(@, [ev |-> "push", d |-> Len(s1.curPath),
                                     path |-> seen, opt |-> NilOpt])]

compareAnyV1(s, vx, vy) ==
    IF s.panic # "" THEN s
    ELSE IF ~IsValid(vx) \/ ~IsValid(vy)
    THEN reportV1(s, IsValid(vx) = IsValid(vy), vx, vy)
    ELSE IF vx.t # vy.t THEN reportV1(s, FALSE, vx, vy)
    ELSE Log(afterOptionsV1(tryOptionsV1(enterV1(s, vx, vy), vx, vy, vx.t),
                            vx, vy, vx.t),
             "pop")

RECURSIVE processOptionV1(_, _)
processOptionV1(s, opt) ==
    LET RECURSIVE each(_, _)
        each(st, list) == IF list = << >> THEN st
                          ELSE each(processOptionV1(st, Head(list)), Tail(list))
    IN IF s.panic # "" THEN s
       ELSE CASE opt.o = "Options" -> each(s, opt.sub)
              [] opt.o = "visibleStructs" -> [s EXCEPT !.exporters = @ \cup {opt.typ}]
              [] opt.o = "option" ->
                    IF opt.typeFilter = ""
                       /\ Len(opt.pathFilters) + Len(opt.valueFilters) = 0
                    THEN Panic(s, "cannot use an unfiltered option")
                    ELSE IF opt.op.kind = "nil" /\ Len(opt.valueFilters) = 0
                    THEN [s EXCEPT !.optsIgn = Append(@, opt)]
                    ELSE [s EXCEPT !.opts = Append(@, opt)]
              [] opt.o = "reporter" ->
                    IF s.reporter.set
                    THEN Panic(s, "difference reporter already registered")
                    ELSE [s EXCEPT !.reporter = [set |-> TRUE, r |-> newReporter]]
              [] OTHER -> Panic(s, "unknown option")

\* newState's last loop: the Ignore options are swapped to the front
RECURSIVE moveIgnoresV1(_, _, _)
moveIgnoresV1(os, i, j) ==
    IF i > Len(os) THEN os
    ELSE IF os[i].op.kind = "nil"
    THEN moveIgnoresV1([os EXCEPT ![i] = os[j], ![j] = os[i]], i + 1, j + 1)
    ELSE moveIgnoresV1(os, i + 1, j)

newStateV1(list) ==
    LET s0 == [eq |-> TRUE, curPath |-> << >>,
               dsCheck |-> [curr |-> 0, next |-> 0],
               exporters |-> {}, optsIgn |-> << >>, opts |-> << >>,
               reporter |-> [set |-> FALSE, r |-> newReporter],
               panic |-> "", log |-> << >>, calls |-> << >>, reports |-> << >>]
        RECURSIVE each(_, _)
        each(st, l) == IF l = << >> THEN st
                       ELSE each(processOptionV1(st, Head(l)), Tail(l))
        s1 == each(s0, list)
    IN [s1 EXCEPT !.opts = moveIgnoresV1(@, 1, 1)]

\* Equal of the flat-option engine, returning the whole final state
EqualV1(vx, vy, list) ==
    compareAnyV1(newStateV1([k \in DOMAIN list |-> asV1(list[k])]), vx, vy)

\* ------------------------------------------------------------ inputs ---
SameTypePairs == { p \in Concrete \X Concrete : p[1].t = p[2].t }

\* arguments of different dynamic types, and untyped nil arguments
MixedPairs == { p \in Inputs \X Inputs :
                  /\ p[1].t # p[2].t
                  /\ { p[1].t, p[2].t } \subseteq { "", "int", "EqT", "func()" } }

BaseOptions ==
    { FilterPath("lastInt", Ignore),
      FilterValues("anyZero", Ignore),
      FilterPath("fieldb", Ignore),
      Comparer("sameParity"),
      Comparer("le"),
      Transformer("half"),
      Transformer("toFloat"),
      AllowUnexported("S") }

\* option lists that Equal and Diff reject or that nest groups
OddLists ==
    { << Ignore >>,
      << Comparer("always") >>,
      << FilterPath("atRoot", Comparer("always")) >>,
      << NilOpt, OptionsOf(<< Comparer("sameParity"), Transformer("half") >>) >>,
      << FilterPath("lastInt", OptionsOf(<< Ignore, Ignore >>)),
         Comparer("sameParity"), Transformer("toFloat") >>,
      << FilterValues("anyZero", Comparer("sameParity")), AllowUnexported("S") >>,
      << Transformer("ident") >>,
      << Transformer("toFloat"), Transformer("toInt") >>,
      << Transformer("spread") >>,
      << FilterValues("sameParity", Ignore), FilterValues("never", Ignore),
         Comparer("le") >>,
      << Comparer("sameParity"), OptionsOf(<< Comparer("le"), Ignore >>) >>,
      << Opt("unknown", "", "", << >>) >> }

FewLists == { << >>, << AllowUnexported("S") >>,
              << Comparer("sameParity") >>, << Transformer("half") >>,
              << Comparer("sameString") >>,
              << FilterPath("lastInt", Ignore) >>,
              << FilterPath("zeroLast", Ignore) >>,
              << FilterValues("anyZero", Ignore) >> }

RichLists == SeqsUpTo(BaseOptions, MaxOpts) \cup OddLists

FewPairs == { p \in SameTypePairs : p[1].t \in {"int", "S"} }
              \cup { p \in MixedPairs : "func()" \notin { p[1].t, p[2].t } }

Scenarios == ((SameTypePairs \cup MixedPairs) \X FewLists)
               \cup (FewPairs \X RichLists)

\* ------------------------------------------------------ cycle tracker ---
\* the greatest number of nodes of one side of a comparison of linked nodes
MaxNodes == 3

\* cycles.init: two empty maps from address to depth
cyclesInit == [xDepth |-> [a \in {} |-> 0], yDepth |-> [a \in {} |-> 0]]

\* m[k], the zero value when k is not a key
lookup(m, k) == IF k \in DOMAIN m THEN m[k] ELSE 0

\* a cycles.compare that takes any two detected cycles for equal ones
cyclesCompareAlike(c, xAddr, yAddr) ==
    [equal |-> TRUE, ok |-> xAddr \in DOMAIN c.xDepth \/ yAddr \in DOMAIN c.yDepth]

cyclesCompare(c, xAddr, yAddr) ==
    [equal |-> lookup(c.xDepth, xAddr) = lookup(c.yDepth, yAddr),
     ok |-> xAddr \in DOMAIN c.xDepth \/ yAddr \in DOMAIN c.yDepth]

\* m[k] = d
store(m, k, d) == [a \in DOMAIN m \cup {k} |-> IF a = k THEN d ELSE m[a]]

\* delete(m, k)
delete(m, k) == [a \in DOMAIN m \ {k} |-> m[a]]

\* cycles.push, up to the return of the pop closure
cyclesPush(c, xAddr, yAddr) ==
    LET depth == Cardinality(DOMAIN c.xDepth) + 1
    IN [xDepth |-> store(c.xDepth, xAddr, depth),
        yDepth |-> store(c.yDepth, yAddr, depth)]

\* a pop closure that forgets the address of the x side only
cyclesPopLeft(c, xAddr, yAddr) ==
    [xDepth |-> delete(c.xDepth, xAddr), yDepth |-> c.yDepth]

\* the closure returned by cycles.push(xAddr, yAddr), invoked
cyclesPop(c, xAddr, yAddr) ==
    [xDepth |-> delete(c.xDepth, xAddr), yDepth |-> delete(c.yDepth, yAddr)]

\* ------------------------------------------- runaway transformers ---
\* the least path length at which recChecker.Check scans the path
minLen == 2^16

\* the greatest number of scans a comparison is followed through
MaxScans == 2

RecursivePanic == "recursive set of Transformers detected"

\* A descent of compareAny calls.  Its path is root, then the steps of
\* head, then plain Indirect steps, then the steps of cycle over and over;
\* a step is the name of the Transformer of a Transform step, or "" for any
\* other step.  The path is kept as the descent and its length.
Chain(head, plain, cycle) == [head |-> head, plain |-> plain, cycle |-> cycle]

Chains ==
    { Chain(<< >>, 0, << "SplitLines", "" >>),
      Chain(<< >>, 0, << "T1", "T2", "", "T3" >>),
      Chain(<< "T1" >>, 0, << "" >>),
      Chain(<< >>, minLen - 4, << "T1", "" >>),
      Chain(<< >>, minLen - 3, << "T1", "" >>),
      Chain(<< >>, minLen, << "T1", "" >>) }

\* the i-th step of the path of the descent c
StepOf(c, i) ==
    IF i = 1 THEN ""
    ELSE IF i - 1 <= Len(c.head) THEN c.head[i - 1]
    ELSE IF i - 1 <= Len(c.head) + c.plain THEN ""
    ELSE c.cycle[((i - 2 - Len(c.head) - c.plain) % Len(c.cycle)) + 1]

PathOf(c, n) == [chain |-> c, len |-> n]

\* the Transformers of the Transform steps of p
TransformersOf(p) ==
    ({ p.chain.head[i] : i \in DOMAIN p.chain.head }
        \cup { p.chain.cycle[i] : i \in DOMAIN p.chain.cycle }) \ { "" }

\* a Check that never scans
CheckNever(rc, p) ==
    [rc |-> [next |-> IF rc.next = 0 THEN minLen ELSE rc.next], panic |-> ""]

\* recChecker.Check: m counts the uses of every Transformer in the path
\* (next is a 64-bit int; MaxScans doublings of minLen stay far below 2^31)
Check(rc, p) ==
    LET next == IF rc.next = 0 THEN minLen ELSE rc.next
        m == [t \in TransformersOf(p) |->
                 Cardinality({ i \in 1..p.len : StepOf(p.chain, i) = t })]
    IN IF p.len < next THEN [rc |-> [next |-> next], panic |-> ""]
       ELSE [rc |-> [next |-> next * 2],
             panic |-> IF \E t \in DOMAIN m : m[t] >= 2
                       THEN RecursivePanic ELSE ""]

\* maps from float64 to int of up to MaxEntries entries, in every order of
\* iteration, with NaN keys
MaxEntries == 2

MapKeyValues ==
    { Val("float64", n, FALSE, << >>) : n \in 0..1 } \cup { Val("float64", 0, TRUE, << >>) }

Maps ==
    { Val("map[float64]int", 0, TRUE, << >>) }
    \cup { Val("map[float64]int", 0, FALSE, e) :
             e \in { es \in SeqsUpTo({ Entry(k, Val("int", n, FALSE, << >>)) :
                                        k \in MapKeyValues, n \in 0..1 },
                                     MaxEntries) :
                       \A i, j \in DOMAIN es :
                           (i # j /\ es[i].e[1] = es[j].e[1]) => IsNaN(es[i].e[1]) } }

MapLists == { << >>, << FilterPath("lastInt", Ignore) >>,
              << FilterValues("anyZero", Ignore) >> }

MapScenarios == ((Maps \X Maps) \cup (Slices \X Slices)) \X MapLists

\* structs that hold a struct of another type in an unexported or in an
\* exported field, compared under grants and Ignores of the two fields
MaxGrants == 2

Nested ==
    { Val(t, 0, FALSE, << Val("S", 0, FALSE,
                              << Val("int", a, FALSE, << >>), Val("int", b, FALSE, << >>) >>) >>) :
        t \in {"P", "PB"}, a \in 0..1, b \in 0..1 }

GrantLists ==
    SeqsUpTo({ AllowUnexported("P"), AllowUnexported("PB"), AllowUnexported("S"),
               FilterPath("fieldb", Ignore), FilterPath("fields", Ignore) }, MaxGrants)

StructScenarios == { p \in Nested \X Nested : p[1].t = p[2].t } \X GrantLists

\* values that reach a struct through a pointer, an interface, a slice
\* element, a map value and a struct field
SomeS == { Val("S", 0, FALSE, << Val("int", 0, FALSE, << >>), Val("int", b, FALSE, << >>) >>) :
             b \in 0..1 }

PtrsToS == { Val("*S", 0, TRUE, << >>) } \cup { Val("*S", 0, FALSE, << v >>) : v \in SomeS }

Ws == { Val("W", 0, FALSE, << q >>) : q \in PtrsToS }

WIs == { Val("WI", 0, FALSE, << i >>) :
           i \in { Val("interface{}", 0, TRUE, << >>) }
                   \cup { Val("interface{}", 0, FALSE, << v >>) : v \in SomeS } }

SlicesOfW == { Val("[]W", 0, TRUE, << >>) }
               \cup { Val("[]W", 0, FALSE, e) : e \in SeqsUpTo(Ws, MaxLen) }

MapsOfW ==
    { Val("map[float64]W", 0, FALSE, e) :
        e \in { es \in SeqsUpTo({ Entry(Val("float64", n, FALSE, << >>), w) :
                                    n \in 0..1, w \in Ws }, MaxEntries) :
                  \A i, j \in DOMAIN es : (i # j) => es[i].e[1] # es[j].e[1] } }

DeepValues == SomeS \cup PtrsToS \cup Ws \cup WIs \cup SlicesOfW \cup MapsOfW \cup Nested

\* ------------------------------------------------------ specification ---
VARIABLES x, y, opts, pc, st, dout, cyc, frames

vars == << x, y, opts, pc, st, dout, cyc, frames >>

NoDiff == [panic |-> "", d |-> String(newReporter), eq |-> TRUE]

Init ==
    /\ \E sc \in Scenarios :
          /\ x = sc[1][1]
          /\ y = sc[1][2]
          /\ opts = sc[2]
    /\ pc = "start"
    /\ st = newState(<< >>)
    /\ dout = NoDiff
    /\ cyc = cyclesInit
    /\ frames = << >>

CallEqual ==
    /\ pc = "start"
    /\ st' = Equal(x, y, opts)
    /\ pc' = "equal"
    /\ UNCHANGED << x, y, opts, dout, cyc, frames >>

CallDiff ==
    /\ pc = "start"
    /\ st' = Equal(x, y, << OptionsOf(opts), reporterOption >>)
    /\ dout' = DiffOf(st')
    /\ pc' = "diff"
    /\ UNCHANGED << x, y, opts, cyc, frames >>

\* a Transformer whose input and output types are the same needs a filter
\* as its base case in the flat-option engine; those lists are left out
RECURSIVE SelfFeeding(_)
SelfFeeding(opt) ==
    \/ opt.o = "transformer" /\ OutType(opt.fnc) = opt.typ
    \/ \E k \in DOMAIN opt.sub : SelfFeeding(opt.sub[k])

\* the Transformers anywhere under the options of list
RECURSIVE TransformersIn(_)
TransformersIn(list) ==
    UNION { IF list[k].o = "transformer" THEN { list[k] }
            ELSE TransformersIn(list[k].sub) : k \in DOMAIN list }

\* likewise for two Transformers that feed each other
Feeding(list) ==
    \E a, b \in TransformersIn(list) : OutType(a.fnc) = b.typ

\* a path filter that reads the values of a step, which the steps of the
\* flat-option engine do not carry
RECURSIVE ReadsValues(_)
ReadsValues(opt) ==
    \/ opt.o = "pathFilter" /\ opt.fnc = "zeroLast"
    \/ \E k \in DOMAIN opt.sub : ReadsValues(opt.sub[k])

CallEqualV1 ==
    /\ pc = "start"
    /\ \A k \in DOMAIN opts : ~SelfFeeding(opts[k]) /\ ~ReadsValues(opts[k])
    /\ ~Feeding(opts)
    /\ st' = EqualV1(x, y, opts)
    /\ pc' = "equalV1"
    /\ UNCHANGED << x, y, opts, dout, cyc, frames >>

Next == CallEqual \/ CallDiff \/ CallEqualV1

Spec == Init /\ [][Next]_vars

\* the same calls on maps and slices
InitMap ==
    /\ \E sc \in MapScenarios :
          /\ x = sc[1][1]
          /\ y = sc[1][2]
          /\ opts = sc[2]
    /\ pc = "start"
    /\ st = newState(<< >>)
    /\ dout = NoDiff
    /\ cyc = cyclesInit
    /\ frames = << >>

SpecMap == InitMap /\ [][Next]_vars

\* ------------------------------------- the replay loop, turn by turn ---
\* The last loop of compareSlice on its own: x and y are ignoredX and
\* ignoredY, opts is the edit script handed to the loop, st holds ix, iy
\* and the rest of the script, dout the turns taken.
MaxElems == 2
MaxEdits == 3

IgnoreScripts == UNION { [1..n -> BOOLEAN] : n \in 0..MaxElems }

EditScripts ==
    UNION { [1..n -> {"Identity", "Modified", "UniqueX", "UniqueY"}] : n \in 0..MaxEdits }

InitReplay ==
    /\ x \in IgnoreScripts
    /\ y \in IgnoreScripts
    /\ opts \in EditScripts
    /\ pc = "replay"
    /\ st = [ix |-> 0, iy |-> 0, edits |-> opts, panic |-> ""]
    /\ dout = << >>
    /\ cyc = cyclesInit
    /\ frames = << >>

ReplayTurn ==
    /\ pc = "replay"
    /\ st.ix < Len(x) \/ st.iy < Len(y)
    /\ LET r == replayStep(x, y, st.edits, st.ix, st.iy)
       IN /\ st' = [ix |-> r.ix, iy |-> r.iy, edits |-> r.edits, panic |-> r.panic]
          /\ dout' = Append(dout, [e |-> r.e, take |-> r.take, ix |-> st.ix, iy |-> st.iy,
                                   left |-> Len(st.edits)])
          /\ pc' = IF r.panic # "" THEN "panicked" ELSE "replay"
    /\ UNCHANGED << x, y, opts, cyc, frames >>

ReplayReturn ==
    /\ pc = "replay"
    /\ ~(st.ix < Len(x) \/ st.iy < Len(y))
    /\ pc' = "replayed"
    /\ UNCHANGED << x, y, opts, st, dout, cyc, frames >>

NextReplay == ReplayTurn \/ ReplayReturn

SpecReplay == InitReplay /\ [][NextReplay]_vars

\* ------------------------------------ the probe goroutine, step by step ---
\* callTTBFunc and callTRFunc with the goroutine that detectRaces runs in.
\* x is the call: which of the two functions makes it, whether
\* dynChecker.Next sampled it, and what the user function does when the probe
\* calls it and when the engine calls it (a result or a panic; the two may
\* differ). pc holds the position of the engine's goroutine and of the
\* probe; st holds the locals of both and counts the sends and the receives
\* on the channel c, which has no buffer.
NoValue == "invalid"

UserPanic == "panic"

Outcomes(kind) ==
    IF kind = "TTB" THEN {"true", "false", UserPanic}
    ELSE {"0", "1", "NaN", UserPanic}

ProbedCalls ==
    { [kind |-> k, sampled |-> b, probe |-> p, auth |-> a] :
        k \in {"TTB", "TR"}, b \in BOOLEAN, p \in {"0", "1", "NaN", "true", "false", UserPanic},
        a \in {"0", "1", "NaN", "true", "false", UserPanic} }

\* statelessCompare(step).Equal() on two results of a Transformer
SameResult(a, b) == a # NoValue /\ b # NoValue /\ a = b /\ a # "NaN"

\* detectRaces with the send as its last statement, after the call
detectRacesSendLast(ret, panicking) ==
    [panicking |-> panicking, send |-> IF panicking THEN << >> ELSE << ret >>]

\* the deferred function of detectRaces: recover, then send ret
detectRaces(ret, panicking) ==
    [panicking |-> FALSE, send |-> << ret >>]

InitProbe ==
    /\ x \in { c \in ProbedCalls : {c.probe, c.auth} \subseteq Outcomes(c.kind) }
    /\ y = << >>
    /\ opts = << >>
    /\ pc = [main |-> "next", probe |-> "none"]
    /\ st = [ret |-> NoValue, panicking |-> FALSE, offer |-> << >>,
             got |-> NoValue, want |-> NoValue, returned |-> NoValue,
             sends |-> 0, recvs |-> 0, panic |-> ""]
    /\ dout = NoDiff
    /\ cyc = cyclesInit
    /\ frames = << >>

\* dynChecker.Next, and on a sampled call make(chan) and the go statement
EngineNext ==
    /\ pc.main = "next"
    /\ pc' = IF x.sampled THEN [main |-> "receive", probe |-> "call"]
             ELSE [pc EXCEPT !.main = "call"]
    /\ UNCHANGED << x, y, opts, st, dout, cyc, frames >>

\* ret = f.Call(vs)[0] in the probe
ProbeCall ==
    /\ pc.probe = "call"
    /\ st' = IF x.probe = UserPanic THEN [st EXCEPT !.panicking = TRUE]
             ELSE [st EXCEPT !.ret = x.probe]
    /\ pc' = [pc EXCEPT !.probe = "deferred"]
    /\ UNCHANGED << x, y, opts, dout, cyc, frames >>

\* the deferred function up to its send; a goroutine that is still
\* panicking when it ends takes the program down
ProbeDeferred ==
    /\ pc.probe = "deferred"
    /\ LET d == detectRaces(st.ret, st.panicking)
       IN /\ st' = [st EXCEPT !.panicking = d.panicking, !.offer = d.send]
          /\ pc' = [pc EXCEPT !.probe = IF d.send # << >> THEN "send"
                                       ELSE IF d.panicking THEN "crashed" ELSE "returned"]
    /\ UNCHANGED << x, y, opts, dout, cyc, frames >>

\* c <- ret meets got := <-c
Receive ==
    /\ pc.probe = "send"
    /\ pc.main = "receive"
    /\ st' = [st EXCEPT !.got = st.offer[1], !.offer = << >>,
                        !.sends = @ + 1, !.recvs = @ + 1]
    /\ pc' = [main |-> "call", probe |-> IF st.panicking THEN "crashed" ELSE "returned"]
    /\ UNCHANGED << x, y, opts, dout, cyc, frames >>

\* want := f.Call(...) on the engine's goroutine
EngineCall ==
    /\ pc.main = "call"
    /\ st' = IF x.auth = UserPanic THEN [st EXCEPT !.panic = UserPanic]
             ELSE [st EXCEPT !.want = x.auth]
    /\ pc' = [pc EXCEPT !.main = IF x.auth = UserPanic THEN "panicked"
                                 ELSE IF x.sampled THEN "check" ELSE "return"]
    /\ UNCHANGED << x, y, opts, dout, cyc, frames >>

\* the comparison of got with want
EngineCheck ==
    /\ pc.main = "check"
    /\ LET bad == IF x.kind = "TTB" THEN st.got = NoValue \/ st.got # st.want
                  ELSE ~SameResult(st.got, st.want) /\ SameResult(st.want, st.want)
       IN /\ st' = IF bad THEN [st EXCEPT !.panic = IF x.kind = "TTB" THEN NonSymmetricPanic
                                                     ELSE "non-deterministic function detected"]
                   ELSE st
          /\ pc' = [pc EXCEPT !.main = IF bad THEN "panicked" ELSE "return"]
    /\ UNCHANGED << x, y, opts, dout, cyc, frames >>

\* return want
EngineReturn ==
    /\ pc.main = "return"
    /\ st' = [st EXCEPT !.returned = st.want]
    /\ pc' = [pc EXCEPT !.main = "returned"]
    /\ UNCHANGED << x, y, opts, dout, cyc, frames >>

NextProbe ==
    \/ EngineNext \/ ProbeCall \/ ProbeDeferred \/ Receive
    \/ EngineCall \/ EngineCheck \/ EngineReturn

\* a goroutine that can run is run
SpecProbe == InitProbe /\ [][NextProbe]_vars /\ WF_vars(NextProbe)

\* ------------------------------------------- comparing linked nodes ---
\* One side of a comparison of values of type *N, N being
\* struct { Val int; Next *N }: the nodes are numbered 1..n along the Next
\* pointers from the root, 0 is the nil pointer, and the last node points to
\* nil or back to one of the nodes (a cycle).
Payloads == {0, 1}

Heaps ==
    { [root |-> 0, next |-> << >>, val |-> << >>] }
    \cup UNION { { [root |-> 1,
                    next |-> [i \in 1..n |-> IF i < n THEN i + 1 ELSE back],
                    val |-> v] : back \in 0..n, v \in [1..n -> Payloads] }
                 : n \in 1..MaxNodes }

Cyclic(h) == h.root # 0 /\ h.next[Len(h.next)] # 0

\* the call of compareAny on two pointers that is about to run
Frame(px, py) == [px |-> px, py |-> py, stage |-> "enter"]

Top == frames[Len(frames)]

Return == SubSeq(frames, 1, Len(frames) - 1)

InitWalk ==
    /\ x \in Heaps
    /\ y \in Heaps
    /\ opts = << >>
    /\ pc = "walk"
    /\ st = newState(<< >>)
    /\ dout = NoDiff
    /\ cyc = cyclesInit
    /\ frames = << Frame(x.root, y.root) >>

\* a nil pointer on either side is reported and the call returns
WalkNil ==
    /\ pc = "walk" /\ frames # << >> /\ Top.stage = "enter"
    /\ Top.px = 0 \/ Top.py = 0
    /\ st' = report(st, Top.px = 0 /\ Top.py = 0, {})
    /\ frames' = Return
    /\ UNCHANGED << x, y, opts, pc, dout, cyc >>

\* one of the two addresses is on the current path: the cycle is reported
\* as cycles.compare judges it and the call returns
WalkCycle ==
    /\ pc = "walk" /\ frames # << >> /\ Top.stage = "enter"
    /\ Top.px # 0 /\ Top.py # 0
    /\ cyclesCompare(cyc, Top.px, Top.py).ok
    /\ st' = report(st, cyclesCompare(cyc, Top.px, Top.py).equal, {})
    /\ frames' = Return
    /\ UNCHANGED << x, y, opts, pc, dout, cyc >>

\* no cycle: the addresses are pushed, the payloads compared, and the Next
\* pointers compared by a nested call; the pop is deferred
WalkDescend ==
    /\ pc = "walk" /\ frames # << >> /\ Top.stage = "enter"
    /\ Top.px # 0 /\ Top.py # 0
    /\ ~cyclesCompare(cyc, Top.px, Top.py).ok
    /\ cyc' = cyclesPush(cyc, Top.px, Top.py)
    /\ st' = report(st, x.val[Top.px] = y.val[Top.py], {})
    /\ frames' = Append([frames EXCEPT ![Len(frames)].stage = "pushed"],
                        Frame(x.next[Top.px], y.next[Top.py]))
    /\ UNCHANGED << x, y, opts, pc, dout >>

\* the nested call has returned: the deferred pop runs and the call returns
WalkReturn ==
    /\ pc = "walk" /\ frames # << >> /\ Top.stage = "pushed"
    /\ cyc' = cyclesPop(cyc, Top.px, Top.py)
    /\ frames' = Return
    /\ UNCHANGED << x, y, opts, pc, st, dout >>

\* the outermost call has returned: Equal returns s.result.Equal()
WalkDone ==
    /\ pc = "walk" /\ frames = << >>
    /\ pc' = "done"
    /\ UNCHANGED << x, y, opts, st, dout, cyc, frames >>

NextWalk == WalkNil \/ WalkCycle \/ WalkDescend \/ WalkReturn \/ WalkDone

\* the comparison is one synchronous call: it keeps running until it returns
SpecWalk == InitWalk /\ [][NextWalk]_vars /\ WF_vars(NextWalk)

\* ------------------------------------- the tracker called at will ---
MaxAddr == 2
MaxPushes == 3

Addrs == 1..MaxAddr

InitCycles ==
    /\ x = Invalid
    /\ y = Invalid
    /\ opts = << >>
    /\ pc = "cycles"
    /\ st = newState(<< >>)
    /\ dout = NoDiff
    /\ cyc = cyclesInit
    /\ frames = << >>

\* c.push(a, b); the returned closure is kept, with whether either address
\* was in its map already and how often the closure has been invoked
\* (0, 1, or 2 for twice and more)
CallPush(a, b) ==
    /\ pc = "cycles" /\ Len(frames) < MaxPushes
    /\ cyc' = cyclesPush(cyc, a, b)
    /\ frames' = Append(frames,
                        [px |-> a, py |-> b, invoked |-> 0,
                         fresh |-> ~cyclesCompare(cyc, a, b).ok])
    /\ UNCHANGED << x, y, opts, pc, st, dout >>

\* the k-th returned closure is invoked
CallPop(k) ==
    /\ pc = "cycles"
    /\ cyc' = cyclesPop(cyc, frames[k].px, frames[k].py)
    /\ frames' = [frames EXCEPT ![k].invoked = IF @ = 0 THEN 1 ELSE 2]
    /\ UNCHANGED << x, y, opts, pc, st, dout >>

NextCycles ==
    \/ \E a, b \in Addrs : CallPush(a, b)
    \/ \E k \in DOMAIN frames : CallPop(k)

SpecCycles == InitCycles /\ [][NextCycles]_vars

\* --------------------------------------- a descent of compareAny calls ---
InitRec ==
    /\ x \in Chains
    /\ y = x
    /\ opts = << >>
    /\ pc = "descend"
    /\ st = [curPath |-> PathOf(x, 0), recChecker |-> [next |-> 0], panic |-> ""]
    /\ dout = NoDiff
    /\ cyc = cyclesInit
    /\ frames = << >>

\* compareAny on step: the step is pushed and the path is checked
descend(s) ==
    LET p == PathOf(s.curPath.chain, s.curPath.len + 1)
        c == Check(s.recChecker, p)
    IN [curPath |-> p, recChecker |-> c.rc, panic |-> c.panic]

Descending ==
    /\ pc = "descend" /\ st.panic = ""
    /\ st.recChecker.next < minLen * 2^MaxScans

\* compareAny is called on a root, field, index or indirection step
DescendPlain ==
    /\ Descending
    /\ StepOf(x, st.curPath.len + 1) = ""
    /\ st' = descend(st)
    /\ UNCHANGED << x, y, opts, pc, dout, cyc, frames >>

\* a Transformer applies and compareAny is called on its Transform step
DescendTransform ==
    /\ Descending
    /\ StepOf(x, st.curPath.len + 1) # ""
    /\ st' = descend(st)
    /\ UNCHANGED << x, y, opts, pc, dout, cyc, frames >>

NextRec == DescendPlain \/ DescendTransform

SpecRec == InitRec /\ [][NextRec]_vars

\* ------------------------------------------------ the sampling counter ---
\* One comparison's dynChecker (dsCheck in the older engine), called again
\* and again: st holds the counters, the number of calls made, the answer
\* of the last call and the numbers of the calls that answered true.
MaxCalls == 60

InitDyn ==
    /\ x \in {"dynChecker", "dsCheck"}
    /\ y = x
    /\ opts = << >>
    /\ pc = "sample"
    /\ st = [dc |-> [curr |-> 0, next |-> 0], k |-> 0, ok |-> FALSE,
             checks |-> << >>]
    /\ dout = NoDiff
    /\ cyc = cyclesInit
    /\ frames = << >>

Sampled(nx) ==
    [dc |-> IF x = "dynChecker" THEN nx.dc ELSE nx.ds,
     k |-> st.k + 1, ok |-> nx.ok,
     checks |-> IF nx.ok THEN Append(st.checks, st.k) ELSE st.checks]

CallNext ==
    /\ pc = "sample" /\ x = "dynChecker" /\ st.k < MaxCalls
    /\ st' = Sampled(dynNext(st.dc))
    /\ UNCHANGED << x, y, opts, pc, dout, cyc, frames >>

CallFuncV1 ==
    /\ pc = "sample" /\ x = "dsCheck" /\ st.k < MaxCalls
    /\ st' = Sampled(dsCheckV1(st.dc))
    /\ UNCHANGED << x, y, opts, pc, dout, cyc, frames >>

NextDyn == CallNext \/ CallFuncV1

SpecDyn == InitDyn /\ [][NextDyn]_vars

InitStructs ==
    /\ \E sc \in StructScenarios :
          /\ x = sc[1][1]
          /\ y = sc[1][2]
          /\ opts = sc[2]
    /\ pc = "start"
    /\ st = newState(<< >>)
    /\ dout = NoDiff
    /\ cyc = cyclesInit
    /\ frames = << >>

SpecStructs == InitStructs /\ [][Next]_vars

\* a value compared with itself under DeepAllowUnexported of it
InitDeep ==
    /\ x \in DeepValues
    /\ y = x
    /\ opts = << >>
    /\ pc = "deep"
    /\ st = newState(<< >>)
    /\ dout = NoDiff
    /\ cyc = cyclesInit
    /\ frames = << >>

CallDeepAllowUnexported ==
    /\ pc = "deep"
    /\ opts' = << DeepAllowUnexported(x) >>
    /\ pc' = "start"
    /\ UNCHANGED << x, y, st, dout, cyc, frames >>

NextDeep == CallDeepAllowUnexported \/ CallEqual \/ CallDiff \/ CallEqualV1

SpecDeep == InitDeep /\ [][NextDeep]_vars

\* ------------------------------------------------------ Options.filter ---
\* Options.filter called on a group at one node: x is the group, y the node
\* (its path, type and values), st what filter returned and the panic of
\* applying it when it is an Options value.
MaxMembers == 3

Members0 ==
    { validator, FilterPath("atRoot", Ignore), FilterPath("fieldb", Ignore),
      Comparer("sameParity"), Transformer("half"), Comparer("sameString"),
      OptionsOf(<< Comparer("sameParity"), Transformer("half") >>),
      OptionsOf(<< validator, Comparer("sameParity") >>),
      OptionsOf(<< FilterPath("fieldb", Ignore), Comparer("sameParity") >>),
      OptionsOf(<< Comparer("sameString") >>),
      FilterPath("atRoot", OptionsOf(<< OptionsOf(<< Transformer("half") >>),
                                        Comparer("sameParity") >>)) }

Groups == SeqsUpTo(Members0, MaxMembers)

\* the root of a comparison of two ints, and the unexported field b of a
\* struct that was not granted (its values cannot be read)
Nodes ==
    { [path |-> << PathStep("root", "int", Val("int", 0, FALSE, << >>),
                            Val("int", 1, FALSE, << >>)) >>,
       t |-> "int", vx |-> Val("int", 0, FALSE, << >>), vy |-> Val("int", 1, FALSE, << >>)],
      [path |-> << PathStep("root", "S", Invalid, Invalid),
                   [PathStep("structField", "int", Invalid, Invalid) EXCEPT
                        !.name = "b", !.unexported = TRUE] >>,
       t |-> "int", vx |-> Invalid, vy |-> Invalid] }

InitGroup ==
    /\ x \in Groups
    /\ y \in Nodes
    /\ opts = << >>
    /\ pc = "group"
    /\ st = [out |-> NilOpt, panic |-> ""]
    /\ dout = << >>
    /\ cyc = 0
    /\ frames = << >>

CallOptionsFilter ==
    /\ pc = "group"
    /\ LET r == OptionsFilter([newState(<< >>) EXCEPT !.curPath = y.path],
                              x, y.t, y.vx, y.vy)
       IN st' = [out |-> r.out,
                 panic |-> IF r.out.o = "Options" THEN OptionsApply(r.s).panic
                           ELSE r.s.panic]
    /\ pc' = "filtered"
    /\ UNCHANGED << x, y, opts, dout, cyc, frames >>

NextGroup == CallOptionsFilter

SpecGroup == InitGroup /\ [][NextGroup]_vars

\* ------------------------------------------------ option constructors ---
\* One call of Comparer, FilterValues, Transformer or FilterPath with an
\* argument of any shape: x is the call, st the panic it ended with and the
\* values it returned.
\* A function argument is [kind, variadic, in, out, isNil]; kind "nil" is
\* the untyped nil and kind "Int" a value that is no function.  A name is
\* a sequence of characters by class: "L" a letter or underscore, "N" a
\* digit, "." and "/" themselves.
MaxName == 3

FuncArgs ==
    { [kind |-> "Func", variadic |-> v, in |-> i, out |-> o, isNil |-> n] :
        v \in BOOLEAN, n \in BOOLEAN,
        i \in SeqsUpTo({"int", "interface{}", "[]int"}, 2),
        o \in SeqsUpTo({"bool", "myBool"}, 2) }

Args ==
    { f \in FuncArgs : f.variadic => (f.in # << >> /\ f.in[Len(f.in)] = "[]int") }
      \cup { [kind |-> k, variadic |-> FALSE, in |-> << >>, out |-> << >>, isNil |-> k = "nil"] :
               k \in {"Int", "nil"} }

Names == SeqsUpTo({"L", "N", ".", "/"}, MaxName)

WrappedOptions ==
    { Ignore, reporterOption, OptionsOf(<< >>), OptionsOf(<< Ignore, Ignore >>),
      OptionsOf(<< Ignore, reporterOption >>) }

\* functionType with variadic functions let through
functionTypeVariadic(f) ==
    IF f.kind # "Func" THEN "invalidFunc"
    ELSE CASE Len(f.in) = 2 /\ Len(f.out) = 1 /\ f.in[1] = f.in[2] /\ f.out[1] = "bool"
                -> "equalFunc"
           [] Len(f.in) = 2 /\ Len(f.out) = 1 /\ f.in[1] # f.in[2]
                /\ AssignableTo(f.in[1], f.in[2]) /\ f.out[1] = "bool"
                -> "equalIfaceFunc"
           [] Len(f.in) = 1 /\ Len(f.out) = 1 -> "transformFunc"
           [] OTHER -> "invalidFunc"

functionType(f) ==
    IF f.kind # "Func" \/ f.variadic THEN "invalidFunc"
    ELSE CASE Len(f.in) = 2 /\ Len(f.out) = 1 /\ f.in[1] = f.in[2] /\ f.out[1] = "bool"
                -> "equalFunc"
           [] Len(f.in) = 2 /\ Len(f.out) = 1 /\ f.in[1] # f.in[2]
                /\ AssignableTo(f.in[1], f.in[2]) /\ f.out[1] = "bool"
                -> "equalIfaceFunc"
           [] Len(f.in) = 1 /\ Len(f.out) = 1 -> "transformFunc"
           [] OTHER -> "invalidFunc"

\* identsRx.MatchString: identifiers joined by dots
RECURSIVE identsFrom(_, _)
identsFrom(cs, start) ==
    IF cs = << >> THEN ~start
    ELSE IF start THEN Head(cs) = "L" /\ identsFrom(Tail(cs), FALSE)
    ELSE IF Head(cs) \in {"L", "N"} THEN identsFrom(Tail(cs), FALSE)
    ELSE Head(cs) = "." /\ identsFrom(Tail(cs), TRUE)

identsRx(name) == identsFrom(name, TRUE)

\* the outcome of a constructor: a panic, or the values returned
Panicked(msg) == [panic |-> msg, ret |-> << >>]

Produced(opt) == [panic |-> "", ret |-> << opt >>]

\* v.Type() of the zero Value panics inside reflect
ZeroValuePanic == "reflect: call of reflect.Value.Type on zero Value"

\* the filter on the type of the first parameter
typeFilter(f) == IF Kind(f.in[1]) # "Interface" THEN f.in[1] ELSE ""

\* flattenOptions panics on an option that is no core option
RECURSIVE invalidOptionType(_)
invalidOptionType(opt) ==
    CASE opt.o = "nil" -> FALSE
      [] opt.o = "Options" -> \E k \in DOMAIN opt.sub : invalidOptionType(opt.sub[k])
      [] OTHER -> ~isCore(opt)

newComparer(f) ==
    IF f.kind = "nil" THEN Panicked(ZeroValuePanic)
    ELSE IF functionType(f) # "equalFunc" \/ f.isNil
    THEN Panicked("invalid comparer function")
    ELSE Produced(Opt("comparer", typeFilter(f), f, << >>))

newFilterValues(f, opt) ==
    IF f.kind = "nil" THEN Panicked(ZeroValuePanic)
    ELSE IF functionType(f) # "equalFunc" \/ f.isNil
    THEN Panicked("invalid values filter function")
    ELSE IF invalidOptionType(opt) THEN Panicked("invalid option type")
    ELSE IF normalizeOption(opt).o = "nil" THEN Produced(NilOpt)
    ELSE Produced(Opt("valuesFilter", typeFilter(f), f, << normalizeOption(opt) >>))

newTransformer(name, f) ==
    IF f.kind = "nil" THEN Panicked(ZeroValuePanic)
    ELSE IF functionType(f) # "transformFunc" \/ f.isNil
    THEN Panicked("invalid transformer function")
    ELSE IF name # << >> /\ ~identsRx(name) THEN Panicked("invalid name")
    ELSE Produced([Opt("transformer", typeFilter(f), f, << >>) EXCEPT
                       !.fnc = [f |-> f, name |-> IF name = << >> THEN << "L" >> ELSE name]])

\* f is a func(Path) bool: only its being nil is left to check
newFilterPath(f, opt) ==
    IF f.isNil THEN Panicked("invalid path filter function")
    ELSE IF invalidOptionType(opt) THEN Panicked("invalid option type")
    ELSE IF normalizeOption(opt).o = "nil" THEN Produced(NilOpt)
    ELSE Produced(Opt("pathFilter", "", f, << normalizeOption(opt) >>))

InitConstruct ==
    /\ x = [fn |-> "", f |-> << >>, name |-> << >>, opt |-> NilOpt]
    /\ y = << >>
    /\ opts = << >>
    /\ pc = "construct"
    /\ st = Produced(NilOpt)
    /\ dout = << >>
    /\ cyc = 0
    /\ frames = << >>

Construct(fn, f, name, opt, r) ==
    /\ x' = [fn |-> fn, f |-> f, name |-> name, opt |-> opt]
    /\ st' = r
    /\ pc' = "constructed"
    /\ UNCHANGED << y, opts, dout, cyc, frames >>

CallComparer ==
    /\ pc = "construct"
    /\ \E f \in Args : Construct("Comparer", f, << >>, NilOpt, newComparer(f))

CallFilterValuesOf ==
    /\ pc = "construct"
    /\ \E f \in Args : \E opt \in WrappedOptions :
          Construct("FilterValues", f, << >>, opt, newFilterValues(f, opt))

CallTransformer ==
    /\ pc = "construct"
    /\ \E f \in Args : \E name \in Names :
          Construct("Transformer", f, name, NilOpt, newTransformer(name, f))

\* the predicates FilterPath can be given: a func(Path) bool or its nil
CallFilterPathOf ==
    /\ pc = "construct"
    /\ \E n \in BOOLEAN : \E opt \in WrappedOptions :
          LET f == [kind |-> "Func", variadic |-> FALSE, in |-> << "Path" >>,
                    out |-> << "bool" >>, isNil |-> n]
          IN Construct("FilterPath", f, << >>, opt, newFilterPath(f, opt))

NextConstruct == CallComparer \/ CallFilterValuesOf \/ CallTransformer \/ CallFilterPathOf

SpecConstruct == InitConstruct /\ [][NextConstruct]_vars

\* ------------------------------------------------- the default reporter ---
\* One reporter, handed one result after another: x names the reporter (the
\* one of report.go or the older one), y is the list of the differences it
\* was handed, st the reporter, dout what String returns after the last one.
MaxReports == 4

\* the texts of a difference: their bytes and their newlines
DiffTexts ==
    { [nb |-> 16, nl |-> 3], [nb |-> 2048, nl |-> 3], [nb |-> 600, nl |-> 128] }

InitReport ==
    /\ x \in {"report.go", "older"}
    /\ y = << >>
    /\ opts = << >>
    /\ pc = "report"
    /\ st = newReporter
    /\ dout = String(newReporter)
    /\ cyc = 0
    /\ frames = << >>

\* defaultReporter.Report of report.go, followed by String
ReportFlags ==
    /\ pc = "report" /\ x = "report.go" /\ Len(y) < MaxReports
    /\ \E f \in {"reportUnequal", "reportEqual", "reportIgnored"} : \E t \in DiffTexts :
          LET r == IF f = "reportUnequal"
                   THEN reportSized(st, [k |-> Len(y) + 1, t |-> t], t.nb, t.nl)
                   ELSE st
          IN /\ st' = r
             /\ y' = IF f = "reportUnequal" THEN Append(y, t) ELSE y
             /\ dout' = String(r)
    /\ UNCHANGED << x, opts, pc, cyc, frames >>

\* defaultReporter.Report of the older reporter, followed by its String
ReportEq ==
    /\ pc = "report" /\ x = "older" /\ Len(y) < MaxReports
    /\ \E eq \in BOOLEAN : \E t \in DiffTexts :
          LET r == IF eq THEN st
                   ELSE reportSized(st, [k |-> Len(y) + 1, t |-> t], t.nb, t.nl)
          IN /\ st' = r
             /\ y' = IF eq THEN y ELSE Append(y, t)
             /\ dout' = StringV1(r)
    /\ UNCHANGED << x, opts, pc, cyc, frames >>

NextReport == ReportFlags \/ ReportEq

SpecReport == InitReport /\ [][NextReport]_vars

\* --------------------------------------------------- sorting map keys ---
\* sortKeys applied to two lists of keys of one type that hold the same
\* keys, NaNs apart: x and y are the lists, st and dout what sortKeys
\* returns for them.
MaxKeys == 3

Float(n) == Val("float64", n, FALSE, << >>)

NaN == Val("float64", 0, TRUE, << >>)

Iface(v) == Val("interface{}", 0, FALSE, << v >>)

KeysByType ==
    { { Val("bool", n, FALSE, << >>) : n \in 0..1 },
      { Float(0), Float(1), NaN },
      { Val("complex128", 0, FALSE, c) :
          c \in { << Float(0), Float(0) >>, << Float(0), NaN >>,
                  << NaN, Float(0) >>, << Float(1), Float(0) >> } },
      { Val("[2]float64", 0, FALSE, a) :
          a \in { << Float(0), Float(1) >>, << Float(1), Float(0) >>,
                  << NaN, Float(1) >>, << NaN, Float(0) >> } },
      { Val("interface{}", 0, TRUE, << >>), Iface(NaN) }
        \cup { Iface(Val(t, 0, FALSE, << >>)) : t \in {"q.T", "a/p.T", "b/p.T", "b/p.T'"} }
        \cup { Iface(Val("q.T", 1, FALSE, << >>)) } }

KeyLists == UNION { SeqsUpTo(K, MaxKeys) : K \in KeysByType }

Range(f) == { f[i] : i \in DOMAIN f }

NonNaN(vs) == { k \in Range(vs) : ~ContainsNaN(k) }

\* the lists that hold the keys of vs and any number of the NaN keys of its type
SameKeys(vs) ==
    { ws \in SeqsUpTo(UNION { { k \in K : k \in Range(vs) \/ ContainsNaN(k) } :
                               K \in { K0 \in KeysByType : Range(vs) \subseteq K0 /\ vs # << >> } },
                      MaxKeys) :
        NonNaN(ws) = NonNaN(vs) }

InitSort ==
    /\ x \in KeyLists
    /\ y = << >>
    /\ opts = << >>
    /\ pc = "keys"
    /\ st = << >>
    /\ dout = << >>
    /\ cyc = 0
    /\ frames = << >>

SortKeys ==
    /\ pc = "keys"
    /\ \E ws \in SameKeys(x) :
          /\ y' = ws
          /\ st' = sortKeys(x)
          /\ dout' = sortKeys(ws)
    /\ pc' = "sorted"
    /\ UNCHANGED << x, opts, cyc, frames >>

NextSort == SortKeys

SpecSort == InitSort /\ [][NextSort]_vars

\* ------------------------------------------------ the filters of options ---
\* The option struct of options.go with its two filter slices.  A slice is
\* an array of the heap with a length and a capacity; st holds the heap and
\* the options made so far, each a list of option structs (one for an
\* option, one per member for an Options); y holds, for each of them, the
\* filters it was made with.
MaxDerived == 5

nilSlice == [a |-> 0, len |-> 0, cap |-> 0]

\* s[:n:n] with the capacity left as it is
simpleSlice(sl, n) == [sl EXCEPT !.len = n]

\* s[:n:n]
fullSlice(sl, n) == [sl EXCEPT !.len = n, !.cap = n]

\* the elements of a slice
Elems(heap, sl) == [i \in 1..sl.len |-> heap[sl.a][i]]

\* append(sl, f): in place when the capacity allows it, else into a new
\* array of twice the capacity
append(heap, sl, f) ==
    IF sl.len < sl.cap
    THEN [heap |-> [heap EXCEPT ![sl.a][sl.len + 1] = f],
          sl |-> [sl EXCEPT !.len = @ + 1]]
    ELSE LET newcap == IF sl.cap = 0 THEN 1 ELSE 2 * sl.cap
         IN [heap |-> Append(heap, [i \in 1..newcap |->
                                      IF i <= sl.len THEN heap[sl.a][i]
                                      ELSE IF i = sl.len + 1 THEN f ELSE ""]),
             sl |-> [a |-> Len(heap) + 1, len |-> sl.len + 1, cap |-> newcap]]

\* the option case of FilterPath
filterPathOption(heap, opt, f) ==
    LET n == opt.pathFilters.len
        r == append(heap, fullSlice(opt.pathFilters, n), f)
    IN [heap |-> r.heap, opt |-> [opt EXCEPT !.pathFilters = r.sl]]

\* the option case of FilterValues
filterValuesOption(heap, opt, f) ==
    LET n == opt.valueFilters.len
        r == append(heap, fullSlice(opt.valueFilters, n), f)
    IN [heap |-> r.heap, opt |-> [opt EXCEPT !.valueFilters = r.sl]]

\* the loop of the Options case, and the single option
RECURSIVE filterEach(_, _, _, _, _)
filterEach(heap, members, f, values, done) ==
    IF members = << >> THEN [heap |-> heap, members |-> done]
    ELSE LET r == IF values THEN filterValuesOption(heap, Head(members), f)
                  ELSE filterPathOption(heap, Head(members), f)
         IN filterEach(r.heap, Tail(members), f, values, Append(done, r.opt))

optionStruct(op) == [op |-> op, pathFilters |-> nilSlice, valueFilters |-> nilSlice]

InitFilters ==
    /\ x = 0
    /\ y = << << [p |-> << >>, v |-> << >>] >>,
              << [p |-> << >>, v |-> << >>], [p |-> << >>, v |-> << >>] >> >>
    /\ opts = << >>
    /\ pc = "options"
    /\ st = [heap |-> << >>,
             made |-> << << optionStruct("ignore") >>,
                         << optionStruct("ignore"), optionStruct("comparer") >> >>]
    /\ dout = << >>
    /\ cyc = 0
    /\ frames = << >>

\* the name of the next filter function: every call passes a new one
NextFilter == [n |-> x + 1]

Derive(i, values) ==
    LET r == filterEach(st.heap, st.made[i], NextFilter, values, << >>)
    IN /\ st' = [heap |-> r.heap, made |-> Append(st.made, r.members)]
       /\ y' = Append(y, [k \in DOMAIN y[i] |->
                            IF values THEN [y[i][k] EXCEPT !.v = Append(@, NextFilter)]
                            ELSE [y[i][k] EXCEPT !.p = Append(@, NextFilter)]])
       /\ x' = x + 1
       /\ UNCHANGED << opts, pc, dout, cyc, frames >>

CallFilterPath ==
    /\ pc = "options" /\ x < MaxDerived
    /\ \E i \in DOMAIN st.made : Derive(i, FALSE)

CallFilterValues ==
    /\ pc = "options" /\ x < MaxDerived
    /\ \E i \in DOMAIN st.made : Derive(i, TRUE)

NextFilters == CallFilterPath \/ CallFilterValues

SpecFilters == InitFilters /\ [][NextFilters]_vars

\* ------------------------------------------------------------- claims ---
InconsistentPanic == "inconsistent difference and equality results"

\* the comparison of Diff(x, y, opts) ran to its end
DiffCompleted == pc = "diff" /\ st.panic = ""

\* C1: whenever the comparison completes, Diff returns the empty string
\* exactly when Equal returns true, so Diff never reaches its panic
\* "inconsistent difference and equality results".
C1_DiffEmptyIffEqual ==
    DiffCompleted =>
        /\ EmptyString(dout.d) <=> dout.eq
        /\ dout.panic # InconsistentPanic

\* --------------------------------------------- reading the traversal log
Finished == pc \in {"equal", "diff", "equalV1"}

\* the run was made by the engine over flat option records
Flat == pc = "equalV1"

Pushes == { i \in DOMAIN st.log : st.log[i].ev = "push" }

\* the node a push entered: its path, its last step, the values of that step
PathAt(i) == st.log[i].path

StepAt(i) == PathAt(i)[Len(PathAt(i))]

\* the pop that leaves the node entered at i
PopOf(i) ==
    CHOOSE j \in (i + 1)..Len(st.log) :
        /\ st.log[j].ev = "pop" /\ st.log[j].d = st.log[i].d
        /\ \A k \in (i + 1)..(j - 1) :
              ~(st.log[k].ev = "pop" /\ st.log[k].d = st.log[i].d)

\* what happened at the node itself, between its push and its pop
Own(i) == { k \in (i + 1)..(PopOf(i) - 1) : st.log[k].d = st.log[i].d }

OwnEvents(i) == { st.log[k].ev : k \in Own(i) }

\* the node has children: something was pushed one level below it
HasChildren(i) ==
    \E k \in (i + 1)..(PopOf(i) - 1) :
        st.log[k].ev = "push" /\ st.log[k].d = st.log[i].d + 1

Readable(step) == IsValid(Values(step)[1]) /\ IsValid(Values(step)[2])

\* opt, taken alone, has all its filters pass at the node and is an Ignore
RECURSIVE ResolvesToIgnore(_, _)
ResolvesToIgnore(opt, p) ==
    LET step == p[Len(p)]
    IN CASE opt.o = "ignore" -> TRUE
         [] opt.o = "pathFilter" ->
               CallP(opt.fnc, p) /\ ResolvesToIgnore(opt.sub[1], p)
         [] opt.o = "valuesFilter" ->
               /\ Readable(step)
               /\ opt.typ = "" \/ AssignableTo(step.typ, opt.typ)
               /\ Call2(opt.fnc, Values(step)[1], Values(step)[2])
               /\ ResolvesToIgnore(opt.sub[1], p)
         [] opt.o = "Options" ->
               \E k \in DOMAIN opt.sub : ResolvesToIgnore(opt.sub[k], p)
         [] OTHER -> FALSE

IgnoreResolvesAt(i) ==
    \E k \in DOMAIN opts : ResolvesToIgnore(opts[k], PathAt(i))

\* fnc is the Transformer of one of the Transform steps that end p[1..k]
RECURSIVE InRun(_, _, _)
InRun(p, k, fnc) ==
    IF k = 0 \/ p[k].kind # "transform" THEN FALSE
    ELSE p[k].trans = fnc \/ InRun(p, k - 1, fnc)

\* the Comparers and Transformers under opt, in order, whose type, path and
\* value filters all pass at the node (a Transformer's own filter refuses
\* a node reached from its own output through Transform steps only; the
\* flat-option engine has no such filter)
RECURSIVE Applicable(_, _)
RECURSIVE ApplicableIn(_, _)
Applicable(opt, p) ==
    LET step == p[Len(p)]
        typeOK == opt.typ = "" \/ AssignableTo(step.typ, opt.typ)
    IN CASE opt.o = "comparer" -> IF typeOK THEN << opt >> ELSE << >>
         [] opt.o = "transformer" ->
               IF typeOK /\ (Flat \/ ~InRun(p, Len(p), opt.fnc))
               THEN << opt >> ELSE << >>
         [] opt.o = "pathFilter" ->
               IF CallP(opt.fnc, p) THEN ApplicableIn(opt.sub, p) ELSE << >>
         [] opt.o = "valuesFilter" ->
               IF typeOK /\ Call2(opt.fnc, Values(step)[1], Values(step)[2])
               THEN ApplicableIn(opt.sub, p) ELSE << >>
         [] opt.o = "Options" -> ApplicableIn(opt.sub, p)
         [] OTHER -> << >>

ApplicableIn(list, p) ==
    IF list = << >> THEN << >>
    ELSE Applicable(Head(list), p) \o ApplicableIn(Tail(list), p)

ApplicableAt(i) == ApplicableIn(opts, PathAt(i))

\* the message of Options.apply, and of tryOptions in the flat-option engine
AmbiguousPanic ==
    IF Flat THEN "ambiguous set of options"
    ELSE "ambiguous set of applicable options"

\* C2: Ignore short-circuits.  At every node where at least one option
\* whose filters all pass resolves to Ignore, the node is ignored whatever
\* the other options and their order: nothing but the Ignore is applied, no
\* Equal method or kind comparison runs, the node is reported as ignored
\* (it is counted neither as same nor as different; the flat-option engine
\* reports nothing at all) and the comparison does not panic there.
C2_IgnoreShortCircuits ==
    Finished =>
        \A i \in Pushes :
            IgnoreResolvesAt(i) =>
                /\ OwnEvents(i) \ {"call"} =
                      (IF Flat THEN {"apply:ignore"}
                       ELSE {"apply:ignore", "report:ignored"})
                /\ ~HasChildren(i)
                /\ st.panic # AmbiguousPanic
                /\ (st.log[i].d = 1 =>
                       /\ st.panic = ""
                       /\ IF Flat THEN st.eq
                          ELSE st.result = [NumSame |-> 0, NumDiff |-> 0])

\* an ignored node at which two Comparers/Transformers apply as well
C2_Witness ==
    /\ pc = "equal" /\ st.panic = ""
    /\ \E i \in Pushes :
          /\ IgnoreResolvesAt(i)
          /\ Len(ApplicableAt(i)) >= 2
          /\ Values(StepAt(i))[1] # Values(StepAt(i))[2]

UnexportedPanic == "cannot handle unexported field"

Eq == IF Flat THEN st.eq ELSE EqualResult(st)

\* the node is an unexported field of a struct
AtUnexported(i) ==
    StepAt(i).kind = "structField" /\ ~isExported(StepAt(i).name)

\* the struct types passed to AllowUnexported anywhere in the option list
RECURSIVE GrantedIn(_)
GrantedIn(list) ==
    UNION { IF list[k].o = "visibleStructs" THEN { list[k].typ }
            ELSE GrantedIn(list[k].sub) : k \in DOMAIN list }

\* the struct holding the field of node i was passed to AllowUnexported
Granted(i) == PathAt(i)[Len(PathAt(i)) - 1].typ \in GrantedIn(opts)

\* opt resolves to Ignore at the node through filters that read no value
RECURSIVE IgnoresBlindly(_, _)
IgnoresBlindly(opt, p) ==
    CASE opt.o = "ignore" -> TRUE
      [] opt.o = "pathFilter" ->
            CallP(opt.fnc, p) /\ IgnoresBlindly(opt.sub[1], p)
      [] opt.o = "Options" ->
            \E k \in DOMAIN opt.sub : IgnoresBlindly(opt.sub[k], p)
      [] OTHER -> FALSE

IgnoredBlindlyAt(i) == \E k \in DOMAIN opts : IgnoresBlindly(opts[k], PathAt(i))

\* C4: private field gating.  Reaching an unexported field of a struct
\* panics with "cannot handle unexported field", nothing having been applied
\* or compared at the field, unless an Ignore whose filters read no value
\* applies to the field (then the field is ignored) or the struct's type was
\* passed to AllowUnexported (then the field's values are compared as any
\* other: with the grant alone two structs are equal exactly when their
\* fields, private ones included, are).
C4_PrivateFieldGating ==
    Finished =>
        /\ \A i \in Pushes :
              AtUnexported(i) =>
                  /\ (~IgnoredBlindlyAt(i) /\ ~Granted(i)) =>
                         /\ st.panic = UnexportedPanic
                         /\ OwnEvents(i) = {}
                         /\ ~HasChildren(i)
                  /\ IgnoredBlindlyAt(i) => "apply:ignore" \in OwnEvents(i)
                  /\ Granted(i) =>
                         (OwnEvents(i) # {} \/ st.panic # UnexportedPanic)
                  /\ (Granted(i) /\ ~IgnoreResolvesAt(i)
                        /\ Len(ApplicableAt(i)) = 0) =>
                         /\ "kind" \in OwnEvents(i)
                         /\ "report:equal" \in OwnEvents(i)
                               <=> StepAt(i).vx = StepAt(i).vy
                         /\ "report:unequal" \in OwnEvents(i)
                               <=> StepAt(i).vx # StepAt(i).vy
        /\ (x.t = "S" /\ y.t = "S" /\ opts = << AllowUnexported("S") >>) =>
               /\ st.panic = ""
               /\ Eq <=> x = y

\* the flat-option engine stopped at a private field that nothing covered
\* a granted private field whose two values differ made the structs unequal
C4_GrantedDiffers ==
    /\ pc = "equalV1" /\ st.panic = "" /\ ~st.eq
    /\ opts = << AllowUnexported("S") >> /\ x.e[1] = y.e[1]

\* a private field skipped by an Ignore selected by path alone
C4_IgnoredField ==
    /\ Finished /\ st.panic = "" /\ x.e[2] # y.e[2]
    /\ \E i \in Pushes : AtUnexported(i) /\ IgnoredBlindlyAt(i) /\ ~Granted(i)

\* an Ignore behind a filter on the values does not cover a private field
C4_ValueFilterNoCover ==
    /\ Finished /\ st.panic = UnexportedPanic
    /\ \E i \in Pushes :
          /\ AtUnexported(i) /\ ~Granted(i)
          /\ \E k \in DOMAIN opts :
                opts[k].o = "valuesFilter" /\ opts[k].sub[1].o = "ignore"

C4_Witness ==
    /\ pc = "equalV1" /\ st.panic = UnexportedPanic
    /\ x.e[1] = y.e[1]
    /\ \E i \in Pushes :
          AtUnexported(i) /\ ~IgnoredBlindlyAt(i) /\ ~Granted(i)

\* ------------------------------------------------ unfiltered options ---
UnfilteredPanic == "cannot use an unfiltered option"

\* the members of an option list in the order they are processed, the
\* groups made with Options opened
RECURSIVE Leaves(_)
Leaves(list) ==
    IF list = << >> THEN << >>
    ELSE (IF Head(list).o = "Options" THEN Leaves(Head(list).sub)
          ELSE << Head(list) >>) \o Leaves(Tail(list))

\* an Ignore with no filter, or a Comparer/Transformer with no filter whose
\* function takes the empty interface
Unfiltered(opt) ==
    \/ opt.o = "ignore"
    \/ opt.o \in {"comparer", "transformer"} /\ InType(opt.fnc) = ""

\* what Equal and Diff accept as a member of the list
Known(opt) ==
    \/ opt.o \in {"ignore", "comparer", "transformer", "pathFilter",
                  "valuesFilter", "visibleStructs"}
    \/ opt.o = "nil" /\ ~Flat

\* C5: an Ignore with no filter, or a Comparer/Transformer with no filter
\* whose input type is the empty interface, makes Equal and Diff panic with
\* "cannot use an unfiltered option" while the list is processed, before
\* anything is compared; a list of members that all carry a filter or have
\* a concrete or non-empty interface input type is accepted and the
\* comparison starts.
C5_UnfilteredOptionPanics ==
    Finished =>
        LET l == Leaves(opts)
        IN /\ (\E k \in DOMAIN l :
                  Unfiltered(l[k]) /\ \A j \in 1..(k - 1) : Known(l[j])) =>
                  (st.panic = UnfilteredPanic /\ st.log = << >>)
           /\ (\A k \in DOMAIN l : ~Unfiltered(l[k])) =>
                  st.panic # UnfilteredPanic
           /\ (\A k \in DOMAIN l : Known(l[k]) /\ ~Unfiltered(l[k])) =>
                  st.log # << >>

\* an unfiltered Ignore inside a group, after two accepted Comparers
C5_Witness ==
    /\ pc = "equal" /\ st.panic = UnfilteredPanic /\ st.log = << >>
    /\ Len(Leaves(opts)) = 3 /\ Leaves(opts)[3].o = "ignore"
    /\ \A k \in 1..2 : ~Unfiltered(Leaves(opts)[k])

\* a Comparer over a non-empty interface was accepted with no filter
C5_InterfaceAccepted ==
    /\ Finished /\ st.panic = "" /\ st.log # << >>
    /\ opts = << Comparer("sameString") >> /\ x.t = "EqT"

\* ------------------------------------------------- order of the rules ---
ApplyEvents == {"apply:ignore", "apply:invalid", "apply:comparer",
                "apply:transformer"}

\* the rules that decided node i: options, Equal method, kind
Decisive(i) == OwnEvents(i) \cap (ApplyEvents \cup {"method", "kind"})

OptionApplies(i) ==
    IgnoreResolvesAt(i) \/ (Readable(StepAt(i)) /\ Len(ApplicableAt(i)) >= 1)

\* C6: at every node the engine tries option resolution, then the type's
\* Equal method, then the comparison by kind, and stops at the first that
\* applies: one rule at most decides a node; where an Ignore, Comparer or
\* Transformer applies neither the Equal method is called nor the kind
\* looked at; where no option applies the Equal method decides if the type
\* has one and the kind only if it has none; and no child of a node is
\* visited when a Comparer or an Equal method decided it.
C6_RuleOrder ==
    Finished =>
        \A i \in Pushes :
            /\ Cardinality(Decisive(i)) <= 1
            /\ OptionApplies(i) => Decisive(i) \subseteq ApplyEvents
            /\ (Readable(StepAt(i)) /\ ~OptionApplies(i)) =>
                   Decisive(i) = (IF HasEqualMethod(StepAt(i).typ)
                                  THEN {"method"} ELSE {"kind"})
            /\ ("apply:comparer" \in OwnEvents(i) \/ "method" \in OwnEvents(i)) =>
                   ~HasChildren(i)

\* a Comparer decided a node whose type has an Equal method
C6_Witness ==
    /\ pc = "equal" /\ st.panic = ""
    /\ \E i \in Pushes :
          /\ HasEqualMethod(StepAt(i).typ)
          /\ Decisive(i) = {"apply:comparer"}

\* the Equal method of a struct decided it and its fields were not visited
C6_MethodDecides ==
    /\ Finished /\ st.panic = "" /\ x.t = "EqS" /\ x # y
    /\ \E i \in Pushes : Decisive(i) = {"method"} /\ ~HasChildren(i)

\* ------------------------------------------------------------ symmetry ---
\* every func(T, T) bool under opt is symmetric
RECURSIVE SymmetricOption(_)
SymmetricOption(opt) ==
    /\ opt.o \in {"comparer", "valuesFilter"} => Symmetric(opt.fnc)
    /\ \A k \in DOMAIN opt.sub : SymmetricOption(opt.sub[k])

\* what a caller of Equal sees: the panic, or else the boolean
Outcome(s, eq) == IF s.panic # "" THEN << "panic", s.panic >> ELSE << "returned", eq >>

\* the outcome of the call with the two arguments exchanged
Swapped ==
    IF Flat THEN Outcome(EqualV1(y, x, opts), EqualV1(y, x, opts).eq)
    ELSE Outcome(Equal(y, x, opts), EqualResult(Equal(y, x, opts)))

\* C7: symmetry of Equal.  When every user function of the option list is
\* symmetric (the functions of the model are all deterministic),
\* Equal(x, y, opts) and Equal(y, x, opts) return the same boolean, and one
\* panics only if the other does, with the same message.
C7_EqualSymmetric ==
    (pc \in {"equal", "equalV1"} /\ \A k \in DOMAIN opts : SymmetricOption(opts[k])) =>
        Outcome(st, Eq) = Swapped

\* slices of different lengths under a symmetric value filter: unequal both ways
C7_Witness ==
    /\ pc = "equal" /\ st.panic = "" /\ ~EqualResult(st)
    /\ opts = << FilterValues("anyZero", Ignore) >>
    /\ x.t = "[]int" /\ ~x.f /\ ~y.f /\ Len(x.e) # Len(y.e)
    /\ Swapped = << "returned", FALSE >>

\* one nil and one empty slice differ, whichever comes first
C7_NilAgainstEmpty ==
    /\ pc = "equal" /\ st.panic = "" /\ ~EqualResult(st)
    /\ x.t = "[]int" /\ x.f /\ ~y.f /\ y.e = << >>

\* --------------------------------------------------------- reflexivity ---
RECURSIVE ContainsFunc(_)
ContainsFunc(v) ==
    (v.t = "func()" /\ ~v.f) \/ \E i \in DOMAIN v.e : ContainsFunc(v.e[i])

RECURSIVE ContainsUnexported(_)
ContainsUnexported(v) ==
    \/ \E k \in DOMAIN Fields(v.t) : Fields(v.t)[k].name \notin {"A", "B", "C"}
    \/ \E i \in DOMAIN v.e : ContainsUnexported(v.e[i])

RECURSIVE MethodsReflexive(_)
MethodsReflexive(v) ==
    /\ HasEqualMethod(v.t) => Call2(EqualMethod(v.t), v, v)
    /\ \A i \in DOMAIN v.e : MethodsReflexive(v.e[i])

NoOptionsSameValue ==
    /\ pc \in {"equal", "equalV1"} /\ opts = << >>
    /\ x = y /\ ~ContainsNaN(x)

WalkEqual == EqualResult(st)

\* the two sides have the same shape; the same shape and the same payloads
SameShape == x.root = y.root /\ x.next = y.next

C9_SameCycles ==
    /\ pc = "done" /\ WalkEqual
    /\ Cyclic(x) /\ x = y /\ Len(x.next) = MaxNodes

\* the closures of pushes that have not been popped
Outstanding == { k \in DOMAIN frames : frames[k].invoked = 0 }

Tracked ==
    /\ DOMAIN cyc.xDepth = { frames[k].px : k \in Outstanding }
    /\ DOMAIN cyc.yDepth = { frames[k].py : k \in Outstanding }
    /\ Outstanding = {} => cyc = cyclesInit

\* C10 as stated: after any sequence of pushes and invocations of the
\* returned pop functions, an address is in xDepth (yDepth) exactly when
\* some push of it has not been popped, and both maps are empty once every
\* push has been popped.
C10_StackDiscipline == pc = "cycles" => Tracked

\* every push was made for two addresses absent from their maps, and no
\* pop function was invoked twice
Disciplined ==
    \A k \in DOMAIN frames : frames[k].fresh /\ frames[k].invoked <= 1

\* C10, amended: the same, for sequences in which every push is made for
\* two addresses neither of which is then in its map (as after cycles.compare
\* has reported no cycle) and every pop function is invoked at most once.
C10_StackDisciplineAmended == (pc = "cycles" /\ Disciplined) => Tracked

\* two pushes deep, then the inner one popped
C10_Witness ==
    /\ pc = "cycles" /\ Disciplined
    /\ Len(frames) = 2 /\ Outstanding = {1}
    /\ DOMAIN cyc.xDepth = { frames[1].px }

\* ------------------------------------------------ runaway transformers ---
\* the uses of Transformer t among the first n steps of descent c, counted
\* from the shape of the descent
RECURSIVE CountIn(_, _, _)
CountIn(seq, t, k) ==
    IF k = 0 THEN 0
    ELSE (IF seq[k] = t THEN 1 ELSE 0) + CountIn(seq, t, k - 1)

Min(a, b) == IF a < b THEN a ELSE b

Uses(c, t, n) ==
    LET inHead == CountIn(c.head, t, Min(Len(c.head), IF n > 1 THEN n - 1 ELSE 0))
        rest == n - 1 - Len(c.head) - c.plain
        rounds == IF rest > 0 THEN rest \div Len(c.cycle) ELSE 0
        over == IF rest > 0 THEN rest % Len(c.cycle) ELSE 0
    IN inHead + rounds * CountIn(c.cycle, t, Len(c.cycle)) + CountIn(c.cycle, t, over)

Recurs(c, n) ==
    \E t \in { "SplitLines", "T1", "T2", "T3" } : Uses(c, t, n) >= 2

Thresholds == { minLen * 2^k : k \in 0..MaxScans }

\* C11: recChecker.Check scans the path only when its length reaches the
\* current threshold, minLen = 1 << 16 at first and doubled after every
\* scan, and panics with "recursive set of Transformers detected" exactly
\* when the scanned path uses some Transformer twice: a path shorter than
\* the threshold is never rejected, and a descent that repeats Transformers
\* is stopped at the first threshold at which it has done so.
C11_RecursionAborted ==
    pc = "descend" =>
        LET n == st.curPath.len
            rejected == st.panic = RecursivePanic
        IN /\ st.panic \in { "", RecursivePanic }
           /\ n > 0 => st.recChecker.next \in Thresholds \cup { minLen * 2^(MaxScans + 1) }
           /\ n > 0 => (n < st.recChecker.next \/ rejected)
           /\ rejected => (n \in Thresholds /\ st.recChecker.next = 2 * n /\ Recurs(x, n))
           /\ \A T \in Thresholds :
                 (T <= n /\ Recurs(x, T)) => (rejected /\ n = T)

\* the chain of the SplitLines test was stopped at the first threshold
C11_Witness ==
    /\ pc = "descend" /\ st.panic = RecursivePanic
    /\ x.cycle = << "SplitLines", "" >> /\ st.curPath.len = minLen

\* a descent that began to repeat a Transformer after the first scan was
\* stopped at the second threshold
C11_SecondScan ==
    /\ pc = "descend" /\ st.panic = RecursivePanic
    /\ st.curPath.len = 2 * minLen

\* --------------------------------------- a Transformer on its own output ---
\* the Transformers given to Equal with no filter around them
PlainTransformers == { opts[k] : k \in { j \in DOMAIN opts : opts[j].o = "transformer" } }

AppliedAt(i, tr) ==
    \E k \in Own(i) : st.log[k].ev = "apply:transformer" /\ st.log[k].opt = tr

\* tr is one of the Transform steps since the last step of another kind
Suppressed(i, tr) == InRun(PathAt(i), Len(PathAt(i)), tr.fnc)

\* C12: a Transformer is not applied at a node when that Transformer is
\* among the Transform steps that end the current path, so never on its own
\* output, directly or through other Transformers; it is applied again once
\* a step of another kind intervenes, and another Transformer among those
\* trailing steps does not keep it from being applied.
C12_NoSelfReapplication ==
    pc \in {"equal", "diff"} =>
        \A i \in Pushes : \A tr \in PlainTransformers :
            /\ Suppressed(i, tr) => ~AppliedAt(i, tr)
            /\ (/\ ~Suppressed(i, tr)
                /\ Readable(StepAt(i)) /\ AssignableTo(StepAt(i).typ, tr.typ)
                /\ ~IgnoreResolvesAt(i)
                /\ \A k \in DOMAIN opts :
                      (opts[k] # tr => Applicable(opts[k], PathAt(i)) = << >>)
                /\ Cardinality({ k \in DOMAIN opts : opts[k] = tr }) = 1)
                  => AppliedAt(i, tr)

\* after toFloat and then toInt the value is an int again, and toFloat,
\* two Transform steps back, is not applied to it
C12_Witness ==
    /\ pc = "equal" /\ st.panic = ""
    /\ \E i \in Pushes :
          /\ Len(PathAt(i)) = 3
          /\ PathAt(i)[2].trans = "toFloat" /\ PathAt(i)[3].trans = "toInt"
          /\ Suppressed(i, Transformer("toFloat"))
          /\ AssignableTo(StepAt(i).typ, "int")
          /\ "kind" \in OwnEvents(i)

\* toInt was applied to the output of toFloat
C12_OtherNotSuppressed ==
    /\ pc = "equal"
    /\ \E i \in Pushes :
          /\ StepAt(i).kind = "transform" /\ StepAt(i).trans = "toFloat"
          /\ AppliedAt(i, Transformer("toInt"))

\* spread was applied again to an element of its own output
C12_AppliedAgain ==
    /\ pc = "equal"
    /\ \E i \in Pushes :
          /\ Len(PathAt(i)) = 3
          /\ PathAt(i)[2].trans = "spread" /\ StepAt(i).kind = "sliceIndex"
          /\ AppliedAt(i, Transformer("spread"))

\* ------------------------------------- checked calls of user functions ---
TTBCalls == { i \in DOMAIN st.calls : st.calls[i].kind = "TTB" }

\* the function was evaluated on (x, y) and on (y, x)
BothOrders(c) ==
    /\ Len(c.evals) = 2
    /\ c.evals[1].x = c.evals[2].y /\ c.evals[1].y = c.evals[2].x

Disagree(c) == Len(c.evals) = 2 /\ c.evals[1].r # c.evals[2].r

\* C13: a sampled call of a func(T, T) bool function (Comparer, FilterValues
\* predicate, Equal method) evaluates it with both argument orders and the
\* comparison aborts with "non-deterministic or non-symmetric function
\* detected" when the two results differ; a call that is not sampled
\* evaluates the function once and uses the result unchecked.
C13_SampledSymmetryCheck ==
    Finished =>
        /\ \A i \in TTBCalls :
              LET c == st.calls[i]
              IN /\ c.sampled =>
                       /\ BothOrders(c)
                       /\ Disagree(c) => /\ st.panic = NonSymmetricPanic
                                         /\ i = Len(st.calls)
                 /\ ~c.sampled =>
                       /\ Len(c.evals) = 1
                       /\ c.ret = c.evals[1].r
        /\ st.panic = NonSymmetricPanic =>
              /\ st.calls # << >>
              /\ st.calls[Len(st.calls)].kind = "TTB"
              /\ st.calls[Len(st.calls)].sampled
              /\ Disagree(st.calls[Len(st.calls)])

\* a sampled call of a Comparer that is not symmetric aborts the comparison
C13_Witness ==
    /\ pc = "equal" /\ st.panic = NonSymmetricPanic
    /\ \E i \in TTBCalls :
          /\ st.calls[i].sampled /\ Disagree(st.calls[i])
          /\ st.calls[i].fnc = "le"
          /\ \E k \in DOMAIN opts : opts[k] = Comparer("le")

\* a call that is not sampled goes unchecked: the Comparer would have
\* answered otherwise on the swapped arguments and its answer is the result
C13_Unchecked ==
    /\ Finished /\ st.panic = ""
    /\ \E i \in TTBCalls :
          LET c == st.calls[i]
          IN /\ ~c.sampled /\ c.fnc = "le" /\ c.ret
             /\ ~Call2(c.fnc, c.evals[1].y, c.evals[1].x)

\* the same on the older engine, where the swapped call comes second
C13_SampledFlat ==
    /\ pc = "equalV1" /\ st.panic = NonSymmetricPanic
    /\ \E i \in TTBCalls : st.calls[i].sampled /\ Disagree(st.calls[i])

\* an Equal method and a FilterValues predicate are sampled too
C13_MethodSampled ==
    /\ Finished
    /\ \E i \in TTBCalls :
          /\ st.calls[i].sampled /\ st.calls[i].fnc = "sameParity"
          /\ st.log[st.calls[i].d - 1].ev = "method"

C13_FilterSampled ==
    /\ Finished
    /\ \E i \in TTBCalls :
          /\ st.calls[i].sampled /\ st.calls[i].fnc = "anyZero"
          /\ BothOrders(st.calls[i])
          /\ st.calls[i].evals[1].x # st.calls[i].evals[1].y

\* ----------------------------------------------------- sampling cadence ---
Triangular(n) == \E m \in 0..n : (m * (m + 1)) \div 2 = n

\* C14: numbering the calls of dynChecker.Next within one comparison from 0,
\* call k returns true exactly when k is a triangular number; so the first
\* call is checked and the gap between consecutive checks grows by one each
\* time.
C14_TriangularCadence ==
    pc = "sample" =>
        /\ st.k > 0 => (st.ok <=> Triangular(st.k - 1))
        /\ \A k \in 0..(st.k - 1) :
              Triangular(k) <=> \E j \in DOMAIN st.checks : st.checks[j] = k
        /\ st.k > 0 => st.checks[1] = 0
        /\ \A j \in 1..(Len(st.checks) - 1) :
              st.checks[j + 1] - st.checks[j] = j

\* call 10 has just been checked, after the checks of calls 0, 1, 3 and 6
C14_Witness ==
    /\ pc = "sample" /\ x = "dynChecker"
    /\ st.k = 11 /\ st.ok /\ st.checks = << 0, 1, 3, 6, 10 >>

\* calls 7, 8 and 9 were not checked, in the older engine either
C14_Unchecked ==
    /\ pc = "sample" /\ x = "dsCheck"
    /\ st.k = 10 /\ ~st.ok /\ st.checks = << 0, 1, 3, 6 >>

\* ------------------------------------------------ what a reporter sees ---
Events == IF st.reporters = << >> THEN << >> ELSE st.reporters[1].events

Count(e, i) == Cardinality({ k \in 1..i : Events[k].e = e })

Depth(i) == Count("PushStep", i) - Count("PopStep", i)

\* the next PushStep or PopStep after event i
NextStep(i) ==
    CHOOSE j \in (i + 1)..Len(Events) :
        /\ Events[j].e # "Report"
        /\ \A k \in (i + 1)..(j - 1) : Events[k].e = "Report"

\* a PushStep whose matching PopStep comes before any other PushStep
Leaf(i) ==
    /\ Events[i].e = "PushStep"
    /\ Events[NextStep(i)].e = "PopStep"

ReportsIn(i) == NextStep(i) - i - 1

Balanced ==
    /\ \A i \in DOMAIN Events : Depth(i) >= 0 /\ Events[i].n = Depth(i)
    /\ Depth(Len(Events)) = 0
    /\ st.curPath = << >>

\* C15: the PushStep and PopStep calls a reporter receives are nested and
\* balanced, one push per descent and one matching pop, the path as long as
\* the recursion is deep and empty when Equal returns; Report is called
\* exactly once on every leaf, a leaf being a PushStep/PopStep pair with no
\* PushStep between them.
C15_ReporterEvents ==
    pc = "diff" =>
        /\ Balanced
        /\ st.panic = "" => \A i \in DOMAIN Events : Leaf(i) => ReportsIn(i) = 1

\* ------------------------------------- ignored elements of a sequence ---
\* element i of one side, compared alone against a missing counterpart at
\* the node with path p, yields no difference: an Ignore resolves there
AloneIgnored(p, side, i) ==
    LET step == p[Len(p)]
        alone == IF side = "x"
                 THEN withIndexes(step.typ, Values(step)[1], Values(step)[2], i, 0)
                 ELSE withIndexes(step.typ, Values(step)[1], Values(step)[2], 0, i)
    IN \E k \in DOMAIN opts : ResolvesToIgnore(opts[k], Append(p, alone))

\* the indexes of the elements that are not ignored, ascending
Kept(p, side, n) ==
    SelectSeq([i \in 1..n |-> i], LAMBDA i : ~AloneIgnored(p, side, i))

\* a sequence without the elements that would be ignored alone
Strip(v, p, side) ==
    [v EXCEPT !.e = [k \in DOMAIN Kept(p, side, Len(v.e)) |->
                         v.e[Kept(p, side, Len(v.e))[k]]]]

IgnoredReports(vals) ==
    Cardinality({ k \in DOMAIN Events :
                    /\ Events[k].e = "Report" /\ Events[k].n = 2
                    /\ Events[k].vals = vals /\ "reportIgnored" \in Events[k].f })

\* the comparison reached compareSlice at the root
SlicedAtRoot == st.slices # << >> /\ Len(st.slices[1].path) = 1

\* C16: in slice comparison every element of either side that yields no
\* difference when compared alone against a missing counterpart is left out
\* of the index lists handed to the differ, and in the replay it is compared
\* against "absent" and adds no difference; so elements that can be ignored
\* and are present on one side only never make two sequences unequal.
C16_IgnoredElementsFiltered ==
    (pc \in {"equal", "diff"} /\ st.panic = "") =>
        /\ \A r \in DOMAIN st.slices :
              LET rec == st.slices[r]
                  vs == Values(rec.path[Len(rec.path)])
              IN /\ rec.ignoredX = [i \in DOMAIN vs[1].e |-> AloneIgnored(rec.path, "x", i)]
                 /\ rec.ignoredY = [i \in DOMAIN vs[2].e |-> AloneIgnored(rec.path, "y", i)]
                 /\ rec.indexesX = Kept(rec.path, "x", Len(vs[1].e))
                 /\ rec.indexesY = Kept(rec.path, "y", Len(vs[2].e))
        /\ SlicedAtRoot =>
              LET p == st.slices[1].path
              IN /\ EqualResult(st)
                      = EqualResult(Equal(Strip(x, p, "x"), Strip(y, p, "y"), opts))
                 /\ pc = "diff" =>
                       \A v \in Ints :
                          /\ IgnoredReports(<< v, Invalid >>)
                               = Cardinality({ i \in DOMAIN x.e :
                                     x.e[i] = v /\ AloneIgnored(p, "x", i) })
                          /\ IgnoredReports(<< Invalid, v >>)
                               = Cardinality({ i \in DOMAIN y.e :
                                     y.e[i] = v /\ AloneIgnored(p, "y", i) })

\* [0, 1] against [1] with zero elements ignored: the 0 is left out of the
\* lists, compared against nothing in the replay, and the slices are equal
C16_Witness ==
    /\ pc = "diff" /\ st.panic = "" /\ SlicedAtRoot
    /\ Len(x.e) = 2 /\ Len(y.e) = 1
    /\ st.slices[1].ignoredX = << TRUE, FALSE >>
    /\ st.slices[1].indexesX = << 2 >> /\ st.slices[1].indexesY = << 1 >>
    /\ IgnoredReports(<< x.e[1], Invalid >>) = 1
    /\ EqualResult(st)

\* the elements that are not ignored still decide: [0, 1] against [0]
C16_KeptDecides ==
    /\ pc = "equal" /\ st.panic = "" /\ SlicedAtRoot
    /\ opts = << FilterPath("zeroLast", Ignore) >>
    /\ Len(x.e) = 2 /\ Len(y.e) = 1
    /\ st.slices[1].ignoredX = << TRUE, FALSE >>
    /\ st.slices[1].ignoredY = << TRUE >>
    /\ ~EqualResult(st)

\* --------------------------------------- sequences of different lengths ---
\* two non-nil sequences that the flat-option engine compared element by
\* element, no option or Equal method deciding at the root
ArraysCompared ==
    /\ pc = "equalV1" /\ st.panic = ""
    /\ x.t = "[]int" /\ y.t = "[]int" /\ ~x.f /\ ~y.f
    /\ \E i \in Pushes : st.log[i].d = 1 /\ "kind" \in OwnEvents(i)

\* the elements beyond the shorter length, each against a missing one
Trailing ==
    IF Len(x.e) >= Len(y.e)
    THEN [k \in 1..(Len(x.e) - Len(y.e)) |-> << x.e[Len(y.e) + k], Invalid >>]
    ELSE [k \in 1..(Len(y.e) - Len(x.e)) |-> << Invalid, y.e[Len(x.e) + k] >>]

Unequal == SelectSeq(st.reports, LAMBDA r : ~r.eq)

\* every pair of the common prefix compared equal (by an option, or as ints)
PrefixEqual ==
    \A k \in DOMAIN st.reports :
        (IsValid(st.reports[k].vx) /\ IsValid(st.reports[k].vy)) => st.reports[k].eq

C20_NoReordering ==
    /\ ArraysCompared /\ opts = << >>
    /\ Len(x.e) = 2 /\ Len(y.e) = 2
    /\ x.e[1] = y.e[2] /\ x.e[2] = y.e[1] /\ x.e[1] # x.e[2]
    /\ ~st.eq

\* a trailing element counts even when an Ignore would resolve at it
C20_TrailingNotIgnored ==
    /\ ArraysCompared /\ PrefixEqual
    /\ opts = << FilterPath("lastInt", Ignore) >>
    /\ Len(x.e) = 0 /\ Len(y.e) = 2 /\ Len(Unequal) = 2

\* ------------------------------------------------------------------ maps ---
\* the root was compared by its kind: no option and no Equal method decided
ByKindAtRoot == \E i \in Pushes : st.log[i].d = 1 /\ "kind" \in OwnEvents(i)

ElementsCompared == \E i \in Pushes : st.log[i].d = 1 /\ HasChildren(i)

Returned(eq) ==
    st.panic = "" /\ (IF Flat THEN st.eq ELSE EqualResult(st)) = eq

\* two non-nil maps that reached compareMap at the root
MapsCompared ==
    /\ Finished /\ ByKindAtRoot
    /\ x.t = "map[float64]int" /\ y.t = "map[float64]int" /\ ~x.f /\ ~y.f

KeyUnion == { MapKeys(x)[i] : i \in DOMAIN x.e } \cup { MapKeys(y)[i] : i \in DOMAIN y.e }

OnBothSides(k) == IsValid(MapIndex(x, k)) /\ IsValid(MapIndex(y, k))

\* the path of the entry of key k
EntryPath(k) ==
    << PathStep("root", x.t, x, y),
       PathStep("mapIndex", Elem(x.t), MapIndex(x, k), MapIndex(y, k)) >>

IgnoredEntry(k) == \E j \in DOMAIN opts : ResolvesToIgnore(opts[j], EntryPath(k))

\* the values of key k compare equal: as ints, or because they are ignored
ValuesEqual(k) == MapIndex(x, k) = MapIndex(y, k) \/ IgnoredEntry(k)

Reversed(v) == [v EXCEPT !.e = [i \in DOMAIN v.e |-> v.e[Len(v.e) + 1 - i]]]

OutcomeOf(vx, vy) ==
    IF Flat THEN Outcome(EqualV1(vx, vy, opts), EqualV1(vx, vy, opts).eq)
    ELSE Outcome(Equal(vx, vy, opts), EqualResult(Equal(vx, vy, opts)))

\* the outcome is the same for every order of iteration of the two maps
OrderFree ==
    /\ OutcomeOf(Reversed(x), y) = OutcomeOf(x, y)
    /\ OutcomeOf(x, Reversed(y)) = OutcomeOf(x, y)

\* C17 as stated: two non-nil maps compare equal if and only if every key
\* of the sorted, de-duplicated union of the key sets is present on both
\* sides with equal values; a key present on one side only counts as a
\* difference; the result does not depend on the order of insertion or
\* iteration of either map.
C17_MapEquality ==
    (MapsCompared /\ st.panic = "") =>
        /\ Returned(\A k \in KeyUnion : OnBothSides(k) /\ ValuesEqual(k))
        /\ OrderFree

\* C17 amended: ... a key present on one side only counts as a difference
\* unless, in the engine that hands such an entry to the options, an Ignore
\* applies to it.
C17_MapEqualityAmended ==
    (MapsCompared /\ st.panic = "") =>
        /\ Returned(\A k \in KeyUnion :
                       IF OnBothSides(k) THEN ValuesEqual(k)
                       ELSE ~Flat /\ IgnoredEntry(k))
        /\ OrderFree

\* the same entries in the other order: equal
C17_Witness ==
    /\ MapsCompared /\ Returned(TRUE) /\ opts = << >>
    /\ Len(x.e) = 2 /\ y = Reversed(x) /\ x # y

\* a key on one side only is a difference
C17_MissingKey ==
    /\ MapsCompared /\ Returned(FALSE) /\ opts = << >>
    /\ Len(x.e) = 2 /\ Len(y.e) = 1 /\ y.e[1] = x.e[2]

\* a key on one side only whose entry is ignored is no difference
C17_MissingKeyIgnored ==
    /\ MapsCompared /\ pc = "equal" /\ Returned(TRUE)
    /\ opts = << FilterPath("lastInt", Ignore) >>
    /\ Len(x.e) = 1 /\ Len(y.e) = 0

\* C18: nil versus empty.  With no applicable option two slices, and
\* likewise two maps, are equal when both are nil and unequal whenever
\* exactly one of them is nil, the other being empty or not; elements are
\* compared only when both sides are non-nil.
C18_NilVersusEmpty ==
    (/\ Finished /\ ByKindAtRoot
     /\ x.t = y.t /\ x.t \in {"[]int", "map[float64]int"}) =>
        /\ (x.f /\ y.f) => Returned(TRUE)
        /\ (x.f # y.f) => Returned(FALSE)
        /\ ElementsCompared => (~x.f /\ ~y.f)

\* a nil map against a non-nil empty map: unequal
C18_Witness ==
    /\ Finished /\ ByKindAtRoot /\ x.t = "map[float64]int"
    /\ x.f /\ ~y.f /\ y.e = << >> /\ Returned(FALSE)

\* a non-nil empty slice against a nil slice; two nil maps
C18_EmptySliceAgainstNil ==
    /\ Finished /\ ByKindAtRoot /\ x.t = "[]int"
    /\ ~x.f /\ x.e = << >> /\ y.f /\ Returned(FALSE)

C18_BothNil ==
    /\ Finished /\ ByKindAtRoot /\ x.t = "map[float64]int"
    /\ x.f /\ y.f /\ Returned(TRUE)

\* a key for which neither map yields a value
Unreachable(k) == ~IsValid(MapIndex(x, k)) /\ ~IsValid(MapIndex(y, k))

\* C19: while two non-nil maps are compared, a key of the sorted key union
\* for which neither map yields a value (a key containing NaN) makes the
\* comparison panic with "has map key with NaNs" instead of returning.
C19_NaNKeyPanics ==
    MapsCompared =>
        /\ (\E k \in KeyUnion : Unreachable(k)) => st.panic = NaNKeyPanic
        /\ st.panic = NaNKeyPanic => \E k \in KeyUnion : IsNaN(k)

\* a NaN key on one side only, after a key both maps have
C19_Witness ==
    /\ MapsCompared /\ pc = "equal" /\ st.panic = NaNKeyPanic
    /\ Len(x.e) = 2 /\ Len(y.e) = 1
    /\ ~IsNaN(x.e[1].e[1]) /\ IsNaN(x.e[2].e[1]) /\ y.e[1] = x.e[1]

C19_BothHaveNaN ==
    /\ MapsCompared /\ pc = "equalV1" /\ st.panic = NaNKeyPanic
    /\ Len(x.e) = 1 /\ x = y

\* C21: once the differences the reporter stored amount to at least maxBytes
\* bytes or maxLines lines, a further difference is counted and not stored;
\* String then ends with the announcement of total less stored differences,
\* a positive number, and carries no announcement when none was dropped.
RECURSIVE BytesOf(_)
BytesOf(ts) == IF ts = << >> THEN 0 ELSE ts[1].nb + BytesOf(Tail(ts))

RECURSIVE LinesOf(_)
LinesOf(ts) == IF ts = << >> THEN 0 ELSE ts[1].nl + LinesOf(Tail(ts))

WithinBudget(k) ==
    /\ BytesOf(SubSeq(y, 1, k - 1)) < maxBytes
    /\ LinesOf(SubSeq(y, 1, k - 1)) < maxLines

StoredCount == Cardinality({ k \in 1..Len(y) : WithinBudget(k) })

Truncation ==
    /\ st.ndiffs = Len(y)
    /\ st.diffs = [k \in 1..StoredCount |-> [k |-> k, t |-> y[k]]]
    /\ dout.s = st.diffs
    /\ IF StoredCount = Len(y) THEN dout.more = 0
       ELSE dout.more = Len(y) - StoredCount /\ dout.more > 0

C21_DiffTruncation == pc = "report" => Truncation

\* the reporter of report.go alone keeps it
C21_ReportGo == (pc = "report" /\ x = "report.go") => Truncation

C21_Dropped == pc = "report" /\ x = "report.go" /\ StoredCount < Len(y)

C21_DroppedByLines ==
    /\ pc = "report" /\ StoredCount < Len(y)
    /\ BytesOf(SubSeq(y, 1, StoredCount)) < maxBytes

C21_OlderAnnouncement ==
    pc = "report" /\ x = "older" /\ StoredCount < Len(y) /\ dout.more < 0

\* C22: isLess is a strict weak ordering on the keys of one type, with a NaN
\* before every other float and equivalent to the other NaNs; sortKeys
\* returns the keys in that order with no key equal to the one before it,
\* so two lists of the same keys without NaN give the same list, each key
\* once.
Incomparable(a, b) == ~isLess(a, b) /\ ~isLess(b, a)

StrictWeakOrder(K) ==
    /\ \A a \in K : ~isLess(a, a)
    /\ \A a, b, c \in K : (isLess(a, b) /\ isLess(b, c)) => isLess(a, c)
    /\ \A a, b, c \in K : (Incomparable(a, b) /\ Incomparable(b, c)) => Incomparable(a, c)

NaNFirst(K) ==
    \A a, b \in K :
        (a.t = "float64" /\ a.f) =>
            IF b.f THEN Incomparable(a, b) ELSE isLess(a, b) /\ ~isLess(b, a)

InOrder(vs) == \A i, j \in DOMAIN vs : i < j => ~isLess(vs[j], vs[i])

NoRepeat(vs) ==
    \A i \in DOMAIN vs :
        (i > 1 /\ vs[i] = vs[i - 1]) => ContainsNaN(vs[i])

Multiplicity(vs, k) == Cardinality({ i \in DOMAIN vs : vs[i] = k })

\* the list out is what sortKeys owes for the list in
SortedKeysOf(in, out) ==
    /\ InOrder(out) /\ NoRepeat(out)
    /\ Range(out) = Range(in)
    /\ \A k \in Range(in) :
          Multiplicity(out, k) = IF ContainsNaN(k) THEN Multiplicity(in, k) ELSE 1

C22_SortKeys ==
    pc = "sorted" =>
        /\ StrictWeakOrder(Range(x) \cup Range(y))
        /\ NaNFirst(Range(x) \cup Range(y))
        /\ SortedKeysOf(x, st) /\ SortedKeysOf(y, dout)
        /\ (NonNaN(x) = Range(x) /\ NonNaN(y) = Range(y)) =>
               (st = dout /\ Len(st) = Cardinality(Range(x)))

C22_Witness ==
    /\ pc = "sorted" /\ Len(x) = MaxKeys /\ Len(y) = 2 /\ x[1] # y[1]
    /\ NonNaN(x) = Range(x) /\ NonNaN(y) = Range(y)
    /\ st = dout /\ Len(st) = 2 /\ st # y

C22_NaNKept ==
    /\ pc = "sorted" /\ Len(st) = 3 /\ st[1] = NaN /\ st[2] = NaN /\ st[3] = Float(0)
    /\ x[1] = Float(0)

C22_TypesOfOnePrinting ==
    /\ pc = "sorted"
    /\ st = << Iface(Val("b/p.T", 0, FALSE, << >>)), Iface(Val("b/p.T'", 0, FALSE, << >>)) >>
    /\ x # st

\* C23: FilterPath and FilterValues return a new option and leave the one
\* they were given unchanged: every option made so far still holds exactly
\* the filters it was made with, whatever was derived from it or beside it
\* afterwards, and two filter lists that differ share no storage.
FiltersOf(i, k) ==
    [p |-> Elems(st.heap, st.made[i][k].pathFilters),
     v |-> Elems(st.heap, st.made[i][k].valueFilters)]

Members == { << i, k >> \in (DOMAIN st.made) \X (1..2) : k <= Len(st.made[i]) }

\* the slots of the heap that hold the elements of a slice
Visible(sl) == { << sl.a, j >> : j \in 1..sl.len }

\* the filter slices of all options made so far
FilterSlices ==
    { st.made[m[1]][m[2]].pathFilters : m \in Members }
      \cup { st.made[m[1]][m[2]].valueFilters : m \in Members }

C23_FilterListsNeverAlias ==
    pc = "options" =>
        /\ \A m \in Members : FiltersOf(m[1], m[2]) = y[m[1]][m[2]]
        /\ \A s1, s2 \in FilterSlices :
              Elems(st.heap, s1) # Elems(st.heap, s2) => Visible(s1) \cap Visible(s2) = {}

\* an option whose path filters have room left, and two options derived
\* from it
C23_Witness ==
    /\ pc = "options"
    /\ \E i, j, k \in DOMAIN st.made :
          /\ i < j /\ j < k
          /\ st.made[i][1].pathFilters.len = 3 /\ st.made[i][1].pathFilters.cap = 4
          /\ Len(y[j][1].p) = 4 /\ Len(y[k][1].p) = 4
          /\ SubSeq(y[j][1].p, 1, 3) = y[i][1].p
          /\ SubSeq(y[k][1].p, 1, 3) = y[i][1].p

\* the list a call does not append to is carried over with its storage
C23_UntouchedListShared ==
    /\ pc = "options"
    /\ \E i, j \in DOMAIN st.made :
          /\ i < j
          /\ st.made[i][1].pathFilters.len > 0
          /\ st.made[j][1].pathFilters = st.made[i][1].pathFilters
          /\ st.made[j][1].valueFilters # st.made[i][1].valueFilters

C23_OptionsFiltered ==
    /\ pc = "options"
    /\ \E i \in DOMAIN st.made :
          /\ Len(st.made[i]) = 2
          /\ Len(FiltersOf(i, 1).p) = 1 /\ Len(FiltersOf(i, 1).v) = 1
          /\ FiltersOf(i, 1) = FiltersOf(i, 2)

\* C24: AllowUnexported grants are per struct type and not inherited: with a
\* struct holding a struct of another type, the comparison panics with
\* "cannot handle unexported field" exactly when some unexported field that
\* is reached belongs to a struct type that was not granted and no Ignore
\* applies to the field; granting the outer type does nothing for the
\* fields of the inner one.
IgnoresField(name) ==
    \E k \in DOMAIN opts :
        \/ name = "b" /\ opts[k] = FilterPath("fieldb", Ignore)
        \/ name = "s" /\ opts[k] = FilterPath("fields", Ignore)

\* comparing two values of struct type t meets an unexported field that is
\* neither ignored nor of a granted type
RECURSIVE MeetsUngranted(_)
MeetsUngranted(t) ==
    \E i \in DOMAIN Fields(t) :
        LET fld == Fields(t)[i]
        IN IF IgnoresField(fld.name) THEN FALSE
           ELSE \/ ~isExported(fld.name) /\ t \notin GrantedIn(opts)
                \/ Kind(fld.typ) = "Struct" /\ MeetsUngranted(fld.typ)

NestedCompared == Finished /\ x.t \in {"P", "PB"}

\* the fields that are compared are equal
SameBut(vx, vy) ==
    IF IgnoresField("s") /\ vx.t = "P" THEN TRUE
    ELSE /\ vx.e[1].e[1] = vy.e[1].e[1]
         /\ IgnoresField("b") \/ vx.e[1].e[2] = vy.e[1].e[2]

C24_GrantsNotTransitive ==
    NestedCompared =>
        /\ st.panic = UnexportedPanic <=> MeetsUngranted(x.t)
        /\ st.panic \in {"", UnexportedPanic}
        /\ st.panic = "" => (Returned(TRUE) <=> SameBut(x, y))

\* the outer type alone is granted and the inner struct's field panics
C24_Witness ==
    /\ NestedCompared /\ Flat /\ x.t = "P" /\ x = y
    /\ opts = << AllowUnexported("P") >>
    /\ st.panic = UnexportedPanic

C24_BothGranted ==
    /\ NestedCompared /\ Flat /\ x.t = "P" /\ x # y
    /\ opts = << AllowUnexported("P"), AllowUnexported("S") >>
    /\ Returned(FALSE)

C24_InnerIgnored ==
    /\ NestedCompared /\ ~Flat /\ x.t = "P" /\ x.e[1].e[2] # y.e[1].e[2]
    /\ opts = << AllowUnexported("P"), FilterPath("fieldb", Ignore) >>
    /\ Returned(TRUE)

C24_InnerAloneGranted ==
    /\ NestedCompared /\ x.t = "P"
    /\ opts = << AllowUnexported("S") >>
    /\ st.panic = UnexportedPanic

\* C25: the constructors check their arguments when called: Comparer and
\* FilterValues panic unless their function is non-nil, not variadic, and
\* has two parameters of one type and the single result bool; Transformer
\* panics unless its function is non-nil with one parameter and one result,
\* and panics with "invalid name" for a non-empty name that is not an
\* identifier; FilterPath panics on a nil predicate; a call that panics
\* returns no Option.
Constructed == pc = "constructed"

TwoAlikeToBool(f) ==
    /\ f.kind = "Func" /\ ~f.isNil /\ ~f.variadic
    /\ Len(f.in) = 2 /\ f.in[1] = f.in[2] /\ f.out = << "bool" >>

OneToOne(f) == f.kind = "Func" /\ ~f.isNil /\ Len(f.in) = 1 /\ Len(f.out) = 1

IsIdentifier(name) ==
    /\ name # << >> /\ name[1] = "L"
    /\ \A i \in DOMAIN name : name[i] \in {"L", "N"}

\* identifiers joined by single dots
RECURSIVE IsQualified(_)
IsQualified(name) ==
    \/ IsIdentifier(name)
    \/ \E i \in DOMAIN name :
          /\ name[i] = "."
          /\ IsIdentifier(SubSeq(name, 1, i - 1))
          /\ IsQualified(SubSeq(name, i + 1, Len(name)))

\* what the claim says of every constructor but the name of a Transformer
ShapesChecked ==
    /\ x.fn \in {"Comparer", "FilterValues"} =>
          /\ ~TwoAlikeToBool(x.f) => st.panic # ""
          /\ (TwoAlikeToBool(x.f) /\ ~invalidOptionType(x.opt)) => st.panic = ""
    /\ x.fn = "Transformer" => (~OneToOne(x.f) => st.panic # "")
    /\ x.fn = "FilterPath" =>
          /\ x.f.isNil => st.panic # ""
          /\ (~x.f.isNil /\ ~invalidOptionType(x.opt)) => st.panic = ""
    /\ st.panic # "" <=> st.ret = << >>

C25_ConstructorsValidate ==
    Constructed =>
        /\ ShapesChecked
        /\ (x.fn = "Transformer" /\ OneToOne(x.f) /\ ~x.f.variadic) =>
              (st.panic = "invalid name" <=> (x.name # << >> /\ ~IsIdentifier(x.name)))

\* C25 amended: the name may also be identifiers joined by dots
C25_ConstructorsValidateAmended ==
    Constructed =>
        /\ ShapesChecked
        /\ (x.fn = "Transformer" /\ OneToOne(x.f) /\ ~x.f.variadic) =>
              /\ st.panic = "invalid name" <=> (x.name # << >> /\ ~IsQualified(x.name))
              /\ st.panic \in {"", "invalid name"}

C25_Witness ==
    /\ Constructed /\ x.fn = "Transformer" /\ OneToOne(x.f)
    /\ x.name = << "/", "L" >> /\ st.panic = "invalid name" /\ st.ret = << >>

C25_QualifiedName ==
    /\ Constructed /\ x.fn = "Transformer" /\ x.name = << "L", ".", "L" >>
    /\ st.panic = "" /\ Len(st.ret) = 1

C25_NilComparer ==
    /\ Constructed /\ x.fn = "Comparer" /\ x.f.isNil /\ x.f.kind = "Func"
    /\ x.f.in = << "int", "int" >> /\ x.f.out = << "bool" >> /\ ~x.f.variadic
    /\ st.panic = "invalid comparer function"

C25_VariadicTransformer ==
    /\ Constructed /\ x.fn = "Transformer" /\ OneToOne(x.f) /\ x.f.variadic
    /\ st.panic = "invalid transformer function"

\* C26: DeepAllowUnexported(v) grants every struct type reachable from v
\* through pointers, interfaces, slice elements, map values and struct
\* fields, so Equal(v, v, DeepAllowUnexported(v)) does not panic on an
\* unexported field and returns true.
\* the struct types of the values reachable from v
RECURSIVE ReachableStructs(_)
ReachableStructs(v) ==
    (IF Kind(v.t) = "Struct" THEN { v.t } ELSE {})
      \cup UNION { ReachableStructs(IF Kind(v.t) = "Map" THEN v.e[i].e[2] ELSE v.e[i]) :
                    i \in DOMAIN v.e }

DeepCompared == Finished /\ x = y /\ opts = << DeepAllowUnexported(x) >>

C26_DeepAllowUnexported ==
    /\ (pc = "start" /\ opts = << DeepAllowUnexported(x) >>) =>
          GrantedIn(opts) = ReachableStructs(x)
    /\ DeepCompared => (st.panic = "" /\ Returned(TRUE))

\* a slice whose first element holds a nil pointer and whose second holds
\* a struct behind the pointer: the second element is never looked into
C26_SecondValueSkipped ==
    /\ DeepCompared /\ x.t = "[]W" /\ Len(x.e) = 2
    /\ x.e[1].e[1].f /\ ~x.e[2].e[1].f
    /\ GrantedIn(opts) = {"W"}
    /\ st.panic = UnexportedPanic

\* the cases of the test: one struct value of each type on the way
C26_NestedGranted ==
    /\ DeepCompared /\ x.t = "P" /\ GrantedIn(opts) = {"P", "S"} /\ Returned(TRUE)

C26_BehindInterface ==
    /\ DeepCompared /\ x.t = "WI" /\ ~x.e[1].f
    /\ GrantedIn(opts) = {"WI", "S"} /\ Returned(TRUE)

\* C27: Options.filter gives a group, nested groups included, one outcome:
\* ignore if any member resolves to ignore; else invalid if any member
\* resolves to invalid; else the one comparer or transformer that applies
\* if there is exactly one; else an Options value holding all those that
\* apply, whose apply panics; else nil when none applies.
RECURSIVE IgnoreAmong(_)
IgnoreAmong(m) ==
    CASE m.o = "ignore" -> TRUE
      [] m.o = "pathFilter" -> CallP(m.fnc, y.path) /\ IgnoreAmong(m.sub[1])
      [] m.o = "Options" -> \E k \in DOMAIN m.sub : IgnoreAmong(m.sub[k])
      [] OTHER -> FALSE

RECURSIVE InvalidAmong(_)
InvalidAmong(m) ==
    CASE m.o = "validator" -> ~IsValid(y.vx) \/ ~IsValid(y.vy)
      [] m.o = "pathFilter" -> CallP(m.fnc, y.path) /\ InvalidAmong(m.sub[1])
      [] m.o = "Options" -> \E k \in DOMAIN m.sub : InvalidAmong(m.sub[k])
      [] OTHER -> FALSE

\* the comparers and transformers of m that apply at the node, in order
RECURSIVE ChoicesAmong(_)
RECURSIVE ChoicesIn(_)
ChoicesAmong(m) ==
    CASE m.o \in {"comparer", "transformer"} ->
            IF m.typ = "" \/ AssignableTo(y.t, m.typ) THEN << m >> ELSE << >>
      [] m.o = "pathFilter" ->
            IF CallP(m.fnc, y.path) THEN ChoicesAmong(m.sub[1]) ELSE << >>
      [] m.o = "Options" -> ChoicesIn(m.sub)
      [] OTHER -> << >>

ChoicesIn(list) ==
    IF list = << >> THEN << >> ELSE ChoicesAmong(Head(list)) \o ChoicesIn(Tail(list))

Group == OptionsOf(x)

C27_FilterPrecedence ==
    pc = "filtered" =>
        IF IgnoreAmong(Group) THEN st.out = Ignore
        ELSE IF InvalidAmong(Group) THEN st.out = invalid
        ELSE IF Len(ChoicesIn(x)) = 1 THEN st.out = ChoicesIn(x)[1] /\ st.panic = ""
        ELSE IF Len(ChoicesIn(x)) > 1
        THEN /\ st.out.o = "Options"
             /\ flattenOptions(<< >>, << st.out >>) = ChoicesIn(x)
             /\ st.panic = "ambiguous set of applicable options"
        ELSE st.out = NilOpt /\ st.panic = ""

\* an invalid member before two that apply, one of them in a nested group
C27_Witness ==
    /\ pc = "filtered" /\ Len(x) = 3 /\ x[1] = validator
    /\ Len(ChoicesIn(x)) = 2 /\ x[3].o = "Options"
    /\ InvalidAmong(Group) /\ st.out = invalid

C27_IgnoreLast ==
    /\ pc = "filtered" /\ Len(x) = 3 /\ InvalidAmong(x[1]) /\ Len(ChoicesAmong(x[2])) = 1
    /\ IgnoreAmong(x[3]) /\ st.out = Ignore

C27_NestedConflict ==
    /\ pc = "filtered" /\ Len(x) = 2 /\ x[1].o = "pathFilter" /\ Len(ChoicesAmong(x[1])) = 2
    /\ Len(ChoicesAmong(x[2])) = 1
    /\ st.out.o = "Options" /\ Len(flattenOptions(<< >>, << st.out >>)) = 3

C27_NoneApplies ==
    /\ pc = "filtered" /\ Len(x) = 2 /\ st.out = NilOpt

\* ------------------------------------------------ statelessCompare ---
\* C28: whenever statelessCompare returns, the result, the reporters with
\* everything they have received, the path, the exporters and the options of
\* the state are what they were at the call; the dynChecker is free to
\* differ.
C28_StatelessCompareFrame ==
    pc \in {"equal", "diff"} =>
        \A k \in DOMAIN st.compares :
            /\ st.compares[k].after.result = st.compares[k].before.result
            /\ st.compares[k].after.reporters = st.compares[k].before.reporters
            /\ st.compares[k].after.curPath = st.compares[k].before.curPath
            /\ st.compares[k].after = st.compares[k].before

\* a Diff whose reporter had already been told of steps and whose result
\* already counted a difference when two elements were
\* compared statelessly and found different, a Comparer being called
C28_Witness ==
    /\ pc = "diff" /\ st.panic = ""
    /\ \E k \in DOMAIN st.compares :
          /\ st.compares[k].res.NumDiff > 0
          /\ st.compares[k].before.reporters # << >>
          /\ st.compares[k].before.curPath # << >>
          /\ st.compares[k].dynChecker[1] # st.compares[k].dynChecker[2]

C28_ResultCarried ==
    /\ pc = "diff" /\ st.panic = ""
    /\ \E k \in DOMAIN st.compares :
          /\ st.compares[k].before.result.NumDiff > 0
          /\ st.compares[k].res.NumSame > 0

C28_PanicInside ==
    /\ pc = "diff" /\ st.panic # "" /\ st.reporters = << >>

\* ------------------------------------------------- the replay loop ---
\* the entries of a script that consume an element of x, of y
CountX(script) == Cardinality({ k \in DOMAIN script : script[k] # "UniqueY" })

CountY(script) == Cardinality({ k \in DOMAIN script : script[k] # "UniqueX" })

KeptOf(ignored) == Cardinality({ k \in DOMAIN ignored : ~ignored[k] })

\* the script covers exactly the elements that are not ignored
Covers == CountX(opts) = KeptOf(x) /\ CountY(opts) = KeptOf(y)

\* the indexes of one side the turns so far have visited, in their order
VisitedX == SelectSeq([k \in DOMAIN dout |-> IF dout[k].e = "UniqueY" THEN -1 ELSE dout[k].ix],
                      LAMBDA i : i >= 0)

VisitedY == SelectSeq([k \in DOMAIN dout |-> IF dout[k].e = "UniqueX" THEN -1 ELSE dout[k].iy],
                      LAMBDA i : i >= 0)

\* C29: given a script that covers exactly the elements not ignored, the
\* replay loop visits the indexes of x and of y once each in increasing
\* order, takes an edit only when neither current element is ignored and the
\* script is not empty, and returns with ix = len(x), iy = len(y) and
\* nothing left of the script.
C29_ReplayLoop ==
    Covers =>
        /\ pc # "panicked" /\ st.panic = ""
        /\ VisitedX = [k \in 1..st.ix |-> k - 1] /\ st.ix <= Len(x)
        /\ VisitedY = [k \in 1..st.iy |-> k - 1] /\ st.iy <= Len(y)
        /\ \A k \in DOMAIN dout :
               dout[k].take =>
                   /\ dout[k].left > 0
                   /\ dout[k].ix < Len(x) => ~x[dout[k].ix + 1]
                   /\ dout[k].iy < Len(y) => ~y[dout[k].iy + 1]
        /\ pc = "replayed" => st.ix = Len(x) /\ st.iy = Len(y) /\ st.edits = << >>

\* a replay that returned after a turn from each ignore-script and two
\* turns from the edit script
C29_Witness ==
    /\ pc = "replayed" /\ Covers /\ Len(opts) = 2
    /\ \E k \in DOMAIN x : x[k]
    /\ \E k \in DOMAIN y : y[k]
    /\ Len(dout) = 4

\* an ignored element of y met while the x element is not ignored
C29_IgnoredYFirst ==
    /\ pc = "replayed" /\ Covers
    /\ \E k \in DOMAIN dout :
          /\ ~dout[k].take /\ dout[k].e = "UniqueY"
          /\ dout[k].ix < Len(x) /\ dout[k].left > 0

\* a script too short is read when it is empty
C29_ShortScript ==
    /\ pc = "panicked" /\ ~Covers /\ st.panic = "index out of range"

\* a script too long is left over
C29_LongScript ==
    /\ pc = "replayed" /\ ~Covers /\ st.edits # << >>

\* ------------------------------------------------ the probe goroutine ---
EngineEnded == pc.main \in {"returned", "panicked"}

ProbeEnded == pc.probe \in {"none", "returned"}

\* C30: the engine's call ends and so does the probe, whatever the user
\* function does in either call; the probe sends once on a sampled call, the
\* engine receives once, a panic in the probe sends the invalid value, and
\* what the engine returns is the result of its own call.
C30_ProbeNeverBlocks ==
    /\ <>(EngineEnded /\ ProbeEnded)
    /\ [](/\ pc.probe # "crashed"
          /\ st.sends <= 1 /\ st.recvs = st.sends
          /\ pc.main = "receive" => pc.probe \in {"call", "deferred", "send"}
          /\ pc.probe = "send" => pc.main = "receive"
          /\ pc.main \in {"call", "check", "return", "returned", "panicked"} =>
                 /\ st.sends = (IF x.sampled THEN 1 ELSE 0)
                 /\ ProbeEnded
                 /\ x.sampled =>
                        st.got = (IF x.probe = UserPanic THEN NoValue ELSE x.probe)
          /\ pc.main = "returned" => st.returned = x.auth /\ st.panic = ""
          /\ pc.main = "panicked" => st.returned = NoValue)

\* the probe panicked, the engine received the invalid value and its own
\* call returned
C30_Witness ==
    /\ pc.main \in {"check", "panicked"} /\ x.sampled /\ x.probe = UserPanic
    /\ x.auth # UserPanic /\ st.sends = 1 /\ st.recvs = 1
    /\ st.got = NoValue /\ st.want = x.auth /\ pc.probe = "returned"

\* the engine returned a result that the probe did not get
C30_NotTheProbesResult ==
    /\ pc.main = "returned" /\ x.sampled /\ st.got # NoValue /\ st.got # st.returned

\* both calls panicked: the engine's panic is the one that is seen
C30_BothPanic ==
    /\ pc.main = "panicked" /\ x.sampled /\ x.probe = UserPanic /\ st.panic = UserPanic
    /\ st.recvs = 1

C30_NotSampled ==
    /\ pc.main = "returned" /\ ~x.sampled /\ st.sends = 0 /\ pc.probe = "none"

====
